---- MODULE Spec2Model ----
(***************************************************************************)
(* VoidPro v0.1.0: the analysis-and-selection engine and the codec         *)
(* dispatch / sidecar pipeline.                                            *)
(*                                                                         *)
(*   SpecRecommend  FileAnalyzer.recommend_algorithm on the profiles       *)
(*                  analyze_file can produce                               *)
(*   SpecDecomp     Decompressor.decompress_file and                       *)
(*                  CompressEngine.decompress_file on one artifact         *)
(*   Spec           CompressEngine.compress_directory followed by          *)
(*                  CompressEngine.decompress_directory on a small tree    *)
(*   SpecCompressFile  CompressionAlgorithms.compress_file on one file,    *)
(*                  then Decompressor.decompress_file with its metadata    *)
(*   SpecAnalyze    FileAnalyzer.analyze_file and _is_likely_compressible  *)
(*                  on one file                                            *)
(*   SpecVerify     FileVerifier.verify_file on one file and               *)
(*                  FileVerifier.verify_directory on a small directory     *)
(*                                                                         *)
(* Reals are scaled to integers: entropy is in tenths of a bit (3.0 is 30) *)
(* and chunk similarity in hundredths (0.5 is 50).                         *)
(***************************************************************************)
EXTENDS Integers, Sequences, FiniteSets, TLC

VARIABLES
    available,      \* optional codec backends present (ZSTD_/LZ4_/BROTLI_AVAILABLE)
    file_info,      \* SpecRecommend: the profile handed to recommend_algorithm
    recommended,    \* SpecRecommend: the codec recommend_algorithm returned
    rpc,            \* SpecRecommend: "ready" | "done"
    input_file,     \* SpecDecomp: the artifact handed to decompress_file
    sidecar,        \* SpecDecomp: the .gcmeta file next to the artifact
    metadata_arg,   \* SpecDecomp: the metadata argument of Decompressor.decompress_file
    dresult,        \* SpecDecomp: what the call did
    dpc,            \* SpecDecomp: "ready" | "done"
    input_dir,      \* Spec: the input directory: whether it exists, and its files
    force,          \* Spec: the force argument of compress_directory
    pc,             \* Spec: where compress_directory / decompress_directory stand
    todo,           \* Spec: the files _get_all_files has yet to yield
    out_files,      \* Spec: the artifacts in the output directory, by path
    out_meta,       \* Spec: the sidecars in the output directory, by path
    stats,          \* Spec: the stats dict of compress_directory
    stats_file,     \* Spec: whether compression_stats.json was written
    log,            \* Spec: per input file, what compress_directory did with it
    dec_files,      \* Spec: the files in the decompression directory, by path
    success_count,  \* Spec: success_count of decompress_directory
    cf_args,        \* SpecCompressFile: the arguments of compress_file and the input's bytes
    cf_failing,     \* SpecCompressFile: the compression backends that raise
    cf_result,      \* SpecCompressFile: what compress_file returned, and the output file
    cf_restore,     \* SpecCompressFile: what Decompressor.decompress_file did with it
    cf_pc,          \* SpecCompressFile: "ready" | "compressed" | "restored"
    an_file,        \* SpecAnalyze: the file handed to analyze_file
    an_result,      \* SpecAnalyze: what the call returned
    an_pc,          \* SpecAnalyze: "ready" | "done"
    ver_call,       \* SpecVerify: the arguments of verify_file and the files they name
    ver_result,     \* SpecVerify: what verify_file returned
    ver_dir,        \* SpecVerify: the arguments of verify_directory and the files they name
    ver_todo,       \* SpecVerify: the files os.walk has yet to yield
    ver_results,    \* SpecVerify: the results dict of verify_directory
    ver_pc          \* SpecVerify: where verify_file / verify_directory stand

vars == <<available, file_info, recommended, rpc,
          input_file, sidecar, metadata_arg, dresult, dpc,
          input_dir, force, pc, todo, out_files, out_meta, stats, stats_file,
          log, dec_files, success_count,
          cf_args, cf_failing, cf_result, cf_restore, cf_pc,
          an_file, an_result, an_pc,
          ver_call, ver_result, ver_dir, ver_todo, ver_results, ver_pc>>

treeVars == <<input_dir, force, pc, todo, out_files, out_meta, stats, stats_file,
              log, dec_files, success_count>>

recVars == <<file_info, recommended, rpc>>
decVars == <<input_file, sidecar, metadata_arg, dresult, dpc>>
cfVars == <<cf_args, cf_failing, cf_result, cf_restore, cf_pc>>
anVars == <<an_file, an_result, an_pc>>
verVars == <<ver_call, ver_result, ver_dir, ver_todo, ver_results, ver_pc>>

(***************************************************************************)
(* Codecs and their availability                                           *)
(***************************************************************************)
\* Python's None, for the optional profile fields.
None == -1

\* The keys of CompressionAlgorithms.algorithms.
Codecs == {"zlib", "gzip", "lzma", "bz2", "zstd", "lz4", "brotli"}

\* The codecs whose library import may fail.
OptionalCodecs == {"zstd", "lz4", "brotli"}

\* get_available_algorithms: the names whose 'available' flag is set.
AvailableAlgorithms(avail) == (Codecs \ OptionalCodecs) \cup avail

fallback_algorithm == "zlib"

(***************************************************************************)
(* FileAnalyzer                                                            *)
(***************************************************************************)
Categories == {"text", "image", "audio", "video", "archive", "executable",
               "model", "shader", "font", "database", "gamedata"}

\* A file_type without an entry in algorithm_recommendations.
UnlistedCategory == "binary"

algorithm_recommendations ==
    [c \in Categories |->
        CASE c = "text"       -> <<"zstd", "lzma", "brotli", "gzip">>
          [] c = "image"      -> <<"lz4", "zstd", "zlib">>
          [] c = "audio"      -> <<"lz4", "zstd", "zlib">>
          [] c = "video"      -> <<"lz4", "zlib">>
          [] c = "archive"    -> <<"zstd", "lzma", "lz4">>
          [] c = "executable" -> <<"zstd", "lzma", "bz2">>
          [] c = "model"      -> <<"zstd", "lzma", "brotli">>
          [] c = "shader"     -> <<"zstd", "lzma", "brotli", "gzip">>
          [] c = "font"       -> <<"brotli", "zstd", "lzma">>
          [] c = "database"   -> <<"zstd", "lzma", "bz2">>
          [] c = "gamedata"   -> <<"zstd", "lzma", "brotli">>]

default_algorithm == "zstd"

\* entropy_thresholds, in tenths of a bit.
EntropyLow == 30
EntropyHigh == 70
\* The entropy above which _is_likely_compressible answers False, in tenths.
EntropyIncompressible == 79
\* The chunk similarity above which a dictionary codec is preferred, in hundredths.
SimilarityThreshold == 50

\* Python's `x in list`.
Contains(seq, x) == \E i \in 1..Len(seq) : seq[i] = x

\* algorithm_recommendations.get(file_type, [default_algorithm])
RecommendationsFor(file_type) ==
    IF file_type \in Categories THEN algorithm_recommendations[file_type]
    ELSE <<default_algorithm>>

\* The mutant of RecommendAlgorithm that consults the category list before
\* the compressibility short-circuit.
RecommendAlgorithmCategoryFirst(info) ==
    LET recs == RecommendationsFor(info.file_type)
    IN  IF ~info.is_compressible /\ Contains(recs, "lz4") THEN "lz4"
        ELSE recs[1]

\* The mutant of RecommendAlgorithm that looks at chunk similarity before
\* entropy.
RecommendAlgorithmSimilarityFirst(info) ==
    LET recommendations == RecommendationsFor(info.file_type)
        entropy == info.entropy
        chunk_similarity == info.chunk_similarity
        similar == chunk_similarity # None /\ chunk_similarity > SimilarityThreshold
        low == entropy # None /\ entropy < EntropyLow
        high == entropy # None /\ entropy >= EntropyLow /\ entropy > EntropyHigh
    IN  IF ~info.is_compressible THEN "lz4"
        ELSE IF similar /\ Contains(recommendations, "zstd") THEN "zstd"
        ELSE IF similar /\ Contains(recommendations, "brotli") THEN "brotli"
        ELSE IF low /\ Contains(recommendations, "lzma") THEN "lzma"
        ELSE IF low /\ Contains(recommendations, "brotli") THEN "brotli"
        ELSE IF low /\ Contains(recommendations, "zstd") THEN "zstd"
        ELSE IF high /\ Contains(recommendations, "lz4") THEN "lz4"
        ELSE IF high /\ Contains(recommendations, "zlib") THEN "zlib"
        ELSE IF high /\ Contains(recommendations, "zstd") THEN "zstd"
        ELSE recommendations[1]

\* The mutant of RecommendAlgorithm without the chunk-similarity layer.
RecommendAlgorithmNoSimilarity(info) ==
    LET recommendations == RecommendationsFor(info.file_type)
        entropy == info.entropy
        low == entropy # None /\ entropy < EntropyLow
        high == entropy # None /\ entropy >= EntropyLow /\ entropy > EntropyHigh
    IN  IF ~info.is_compressible THEN "lz4"
        ELSE IF low /\ Contains(recommendations, "lzma") THEN "lzma"
        ELSE IF low /\ Contains(recommendations, "brotli") THEN "brotli"
        ELSE IF low /\ Contains(recommendations, "zstd") THEN "zstd"
        ELSE IF high /\ Contains(recommendations, "lz4") THEN "lz4"
        ELSE IF high /\ Contains(recommendations, "zlib") THEN "zlib"
        ELSE IF high /\ Contains(recommendations, "zstd") THEN "zstd"
        ELSE recommendations[1]

\* A variant of RecommendAlgorithm whose entropy layer answers without
\* looking into the category's list.
RecommendAlgorithmOutsideList(info) ==
    IF ~info.is_compressible THEN "lz4"
    ELSE IF info.entropy # None /\ info.entropy < EntropyLow THEN "lzma"
    ELSE IF info.entropy # None /\ info.entropy > EntropyHigh THEN "lz4"
    ELSE RecommendationsFor(info.file_type)[1]

\* FileAnalyzer.recommend_algorithm
RecommendAlgorithm(info) ==
    LET recommendations == RecommendationsFor(info.file_type)
        entropy == info.entropy
        chunk_similarity == info.chunk_similarity
        bySimilarity ==
            IF chunk_similarity # None /\ chunk_similarity > SimilarityThreshold
               /\ Contains(recommendations, "zstd") THEN "zstd"
            ELSE IF chunk_similarity # None /\ chunk_similarity > SimilarityThreshold
               /\ Contains(recommendations, "brotli") THEN "brotli"
            ELSE recommendations[1]
    IN  IF ~info.is_compressible THEN "lz4"
        ELSE IF entropy # None /\ entropy < EntropyLow
                /\ Contains(recommendations, "lzma") THEN "lzma"
        ELSE IF entropy # None /\ entropy < EntropyLow
                /\ Contains(recommendations, "brotli") THEN "brotli"
        ELSE IF entropy # None /\ entropy < EntropyLow
                /\ Contains(recommendations, "zstd") THEN "zstd"
        ELSE IF entropy # None /\ entropy >= EntropyLow /\ entropy > EntropyHigh
                /\ Contains(recommendations, "lz4") THEN "lz4"
        ELSE IF entropy # None /\ entropy >= EntropyLow /\ entropy > EntropyHigh
                /\ Contains(recommendations, "zlib") THEN "zlib"
        ELSE IF entropy # None /\ entropy >= EntropyLow /\ entropy > EntropyHigh
                /\ Contains(recommendations, "zstd") THEN "zstd"
        ELSE bySimilarity

\* The entropy values of the profiles, in tenths: both sides of each threshold.
EntropyValues == {0, 29, 30, 31, 70, 71, 79, 80}
\* The chunk similarity values of the profiles, in hundredths.
SimilarityValues == {0, 50, 51, 100}

\* The profiles analyze_file returns: with the statistics skipped or failed
\* all three are None and is_compressible is True; with them computed the
\* entropy is a number and an entropy above 7.9 makes is_compressible False.
Profiles ==
    { p \in [file_type : Categories \cup {UnlistedCategory},
             entropy : EntropyValues \cup {None},
             is_compressible : BOOLEAN,
             chunk_similarity : SimilarityValues \cup {None}] :
        /\ p.entropy = None => (p.is_compressible /\ p.chunk_similarity = None)
        /\ (p.entropy # None /\ p.entropy > EntropyIncompressible)
              => ~p.is_compressible }

NoProfile == [file_type |-> "none", entropy |-> None, is_compressible |-> TRUE,
              chunk_similarity |-> None]

\* A dict with no keys.
EmptyMap == [x \in {} |-> 0]

\* Spec's variables in the other specifications.
IdleTree ==
    /\ input_dir = [exists |-> FALSE, files |-> {}]
    /\ force = FALSE
    /\ pc = "idle"
    /\ todo = {}
    /\ out_files = EmptyMap
    /\ out_meta = EmptyMap
    /\ stats = EmptyMap
    /\ stats_file = FALSE
    /\ log = EmptyMap
    /\ dec_files = EmptyMap
    /\ success_count = 0

\* SpecRecommend's variables in the other specifications.
IdleRecommend ==
    /\ file_info = NoProfile
    /\ recommended = "none"
    /\ rpc = "idle"

\* SpecCompressFile's variables in the other specifications.
IdleCompressFile ==
    /\ cf_args = [exists |-> FALSE, algorithm |-> "", level |-> None, data |-> ""]
    /\ cf_failing = {}
    /\ cf_result = [called |-> FALSE]
    /\ cf_restore = [called |-> FALSE]
    /\ cf_pc = "idle"

\* SpecAnalyze's variables in the other specifications.
IdleAnalyze ==
    /\ an_file = [exists |-> FALSE]
    /\ an_result = [call |-> "none"]
    /\ an_pc = "idle"

\* SpecVerify's variables in the other specifications.
IdleVerify ==
    /\ ver_call = [given |-> FALSE]
    /\ ver_result = [called |-> FALSE]
    /\ ver_dir = [given |-> FALSE]
    /\ ver_todo = {}
    /\ ver_results = EmptyMap
    /\ ver_pc = "idle"

(***************************************************************************)
(* Paths and file names.  A name is the sequence of its characters, so     *)
(* that pathlib's suffix rules and str.endswith are computed, not assumed. *)
(***************************************************************************)
\* The index of the last "." of a name, 0 when it has none (str.rfind + 1).
LastDot(name) ==
    LET dots == {i \in 1..Len(name) : name[i] = "."}
    IN  IF dots = {} THEN 0 ELSE CHOOSE i \in dots : \A j \in dots : j <= i

\* pathlib's PurePath.suffix: from the last dot on, unless that dot leads or
\* ends the name.
Suffix(name) ==
    LET i == LastDot(name)
    IN  IF 1 < i /\ i < Len(name) THEN SubSeq(name, i, Len(name)) ELSE <<>>

\* pathlib's PurePath.stem
Stem(name) == SubSeq(name, 1, Len(name) - Len(Suffix(name)))

\* pathlib's PurePath.with_suffix: the last suffix is replaced, or the new
\* one appended to a name that has none.
WithSuffix(name, suffix) == Stem(name) \o suffix

\* str.endswith
EndsWith(name, ext) ==
    /\ Len(ext) <= Len(name)
    /\ SubSeq(name, Len(name) - Len(ext) + 1, Len(name)) = ext

\* bytes.startswith
StartsWith(data, sig) ==
    /\ Len(sig) <= Len(data)
    /\ SubSeq(data, 1, Len(sig)) = sig

metadata_extension == <<".", "g", "c", "m", "e", "t", "a">>
compressed_extension == <<".", "g", "c", "m", "p">>

(***************************************************************************)
(* Codec backends.  A backend is opaque: an artifact records the codec     *)
(* that produced it and the bytes it carries, and starts with the frame    *)
(* header of its format.  Only the producing codec's inverse decodes it.   *)
(***************************************************************************)
\* The leading bytes each format writes (zlib: CMF/FLG of the default level;
\* brotli has no magic number, its first byte encodes the window size).
FrameHeader(c) ==
    CASE c = "gzip"   -> <<31, 139, 8, 0>>
      [] c = "lzma"   -> <<253, 55, 122, 88, 90, 0>>
      [] c = "bz2"    -> <<66, 90, 104, 57>>
      [] c = "zstd"   -> <<40, 181, 47, 253>>
      [] c = "lz4"    -> <<4, 34, 77, 24>>
      [] c = "zlib"   -> <<120, 156>>
      [] c = "brotli" -> <<27>>

\* What a backend writes for `data`.
Encoded(c, data) == [codec |-> c, data |-> data, head |-> FrameHeader(c)]

\* Whether codec c's inverse decodes `content`.
Decodes(c, content) == content.codec = c

\* The decompressors that open the output file before they read the input
\* (gzip: shutil.copyfileobj into an open file; zstd: copy_stream).
StreamingDecoders == {"gzip", "zstd"}

(***************************************************************************)
(* Decompressor                                                            *)
(***************************************************************************)
\* Decompressor.extension_to_type, in the order of the dict.
extension_to_type ==
    << <<(<<".", "g", "z">>), "gzip">>,
       <<(<<".", "x", "z">>), "lzma">>,
       <<(<<".", "b", "z", "2">>), "bz2">>,
       <<(<<".", "z", "s", "t">>), "zstd">>,
       <<(<<".", "l", "z", "4">>), "lz4">>,
       <<(<<".", "b", "r">>), "brotli">>,
       <<(<<".", "z">>), "zlib">> >>

\* The first entry of the extension table the name ends with, or "".
TypeByExtension(name) ==
    LET hits == {i \in 1..Len(extension_to_type) :
                    EndsWith(name, extension_to_type[i][1])}
    IN  IF hits = {} THEN ""
        ELSE extension_to_type[CHOOSE i \in hits : \A j \in hits : i <= j][2]

\* The signature checks on the first 8 bytes of the file, or "".
TypeByHeader(head) ==
    LET header == SubSeq(head, 1, IF Len(head) < 8 THEN Len(head) ELSE 8)
    IN  IF StartsWith(header, <<31, 139>>) THEN "gzip"
        ELSE IF StartsWith(header, <<253, 55, 122, 88, 90>>) THEN "lzma"
        ELSE IF StartsWith(header, <<66, 90, 104>>) THEN "bz2"
        ELSE IF StartsWith(header, <<40, 181, 47, 253>>) THEN "zstd"
        ELSE IF StartsWith(header, <<4, 34, 77, 24>>) THEN "lz4"
        ELSE ""

\* The mutant of _determine_compression_type that sniffs the header before
\* it looks at the extension.
DetermineCompressionTypeHeaderFirst(file, meta) ==
    IF meta.state = "ok" /\ meta.has_type THEN meta.compression_type
    ELSE IF TypeByHeader(file.content.head) # "" THEN TypeByHeader(file.content.head)
    ELSE IF TypeByExtension(file.name) # "" THEN TypeByExtension(file.name)
    ELSE "zlib"

\* Decompressor._determine_compression_type; `meta` is the file at
\* file_path.with_suffix('.gcmeta').
DetermineCompressionType(file, meta) ==
    IF meta.state = "ok" /\ meta.has_type THEN meta.compression_type
    ELSE IF TypeByExtension(file.name) # "" THEN TypeByExtension(file.name)
    ELSE IF TypeByHeader(file.content.head) # "" THEN TypeByHeader(file.content.head)
    ELSE "zlib"

\* One call of self.decompressors[c]: _decompress_<c>(input_file, output_file).
RunDecompressor(c, content, avail) ==
    IF c \in OptionalCodecs /\ c \notin avail
    THEN [outcome |-> "BackendUnavailable", invoked |-> <<c>>, output |-> "absent",
          data |-> "", resolved |-> c]
    ELSE IF Decodes(c, content)
    THEN [outcome |-> "ok", invoked |-> <<c>>, output |-> "complete",
          data |-> content.data, resolved |-> c]
    ELSE [outcome |-> "BackendFailure", invoked |-> <<c>>,
          output |-> IF c \in StreamingDecoders THEN "partial" ELSE "absent",
          data |-> "", resolved |-> c]

\* A decompress_file call that ends before any decompressor is looked up.
EndedEarly(outcome, c) ==
    [outcome |-> outcome, invoked |-> <<>>, output |-> "absent", data |-> "",
     resolved |-> c]

\* The mutant of decompress_file that, when the resolved codec's decompressor
\* raises, tries zlib's.
DecompressorDecompressFileRetry(file, meta, metadata, avail) ==
    LET compression_type ==
            IF ~metadata.given THEN DetermineCompressionType(file, meta)
            ELSE IF metadata.has_type THEN metadata.compression_type ELSE ""
        first == RunDecompressor(compression_type, file.content, avail)
        second == RunDecompressor("zlib", file.content, avail)
    IN  IF ~file.exists THEN EndedEarly("NotFound", "")
        ELSE IF compression_type = "" THEN EndedEarly("Undetermined", "")
        ELSE IF compression_type \notin Codecs
             THEN RunDecompressor("zlib", file.content, avail)
        ELSE IF first.outcome = "ok" THEN first
        ELSE [second EXCEPT !.invoked = first.invoked \o second.invoked]

\* Decompressor.decompress_file(input_file, output_file, metadata)
DecompressorDecompressFile(file, meta, metadata, avail) ==
    LET compression_type ==
            IF ~metadata.given THEN DetermineCompressionType(file, meta)
            ELSE IF metadata.has_type THEN metadata.compression_type ELSE ""
    IN  IF ~file.exists THEN EndedEarly("NotFound", "")
        ELSE IF compression_type = "" THEN EndedEarly("Undetermined", "")
        ELSE IF compression_type \notin Codecs
             THEN EndedEarly("UnsupportedCodec", compression_type)
        ELSE RunDecompressor(compression_type, file.content, avail)

(***************************************************************************)
(* CompressEngine.decompress_file                                          *)
(***************************************************************************)
\* A path below a root directory: its directories and the file name.
PathOf(dir, name) == [dir |-> dir, name |-> name]

\* pathlib's `directory / relative`
Join(dir, rel) == [dir |-> dir \o rel.dir, name |-> rel.name]

NoPath == PathOf(<<>>, <<>>)

\* CompressEngine.decompress_file(input_file, output_dir); `meta` is the
\* file at input_file.with_suffix('.gcmeta').  `returned` is FALSE for None.
EngineDecompressFile(file, meta, output_dir, avail) ==
    LET output_file ==
            IF meta.state # "absent" /\ meta.has_path
            THEN Join(output_dir, meta.original_path)
            ELSE PathOf(output_dir, Stem(file.name))
        metadata == [given |-> meta.state # "absent", has_type |-> meta.has_type,
                     compression_type |-> meta.compression_type]
        inner == DecompressorDecompressFile(file, meta, metadata, avail)
    IN  IF ~file.exists
        THEN [raised |-> FALSE, returned |-> FALSE, at |-> NoPath,
              inner |-> EndedEarly("NotFound", "")]
        ELSE IF Suffix(file.name) # compressed_extension
        THEN [raised |-> FALSE, returned |-> TRUE,
              at |-> PathOf(output_dir, file.name),
              inner |-> [outcome |-> "copied", invoked |-> <<>>,
                         output |-> "complete", data |-> file.content.data,
                         resolved |-> ""]]
        ELSE IF meta.state = "corrupt"
        THEN [raised |-> TRUE, returned |-> FALSE, at |-> NoPath,
              inner |-> EndedEarly("SidecarUnreadable", "")]
        ELSE [raised |-> FALSE, returned |-> inner.outcome = "ok",
              at |-> output_file, inner |-> inner]

(***************************************************************************)
(* SpecDecomp: one call of Decompressor.decompress_file or of              *)
(* CompressEngine.decompress_file on one artifact.                         *)
(***************************************************************************)
Name_a_gcmp == <<"a", ".", "g", "c", "m", "p">>
Name_a_gz == <<"a", ".", "g", "z">>
Name_a_z == <<"a", ".", "z">>
Name_a_dat == <<"a", ".", "d", "a", "t">>
Name_a_txt == <<"a", ".", "t", "x", "t">>

Name_a_xz == <<"a", ".", "x", "z">>
Name_a_bz2 == <<"a", ".", "b", "z", "2">>
Name_a_zst == <<"a", ".", "z", "s", "t">>
Name_a_lz4 == <<"a", ".", "l", "z", "4">>
Name_a_br == <<"a", ".", "b", "r">>

\* An artifact of the engine, a name for each entry of the extension table
\* and a name with neither.
ArtifactNames == {Name_a_gcmp, Name_a_gz, Name_a_xz, Name_a_bz2, Name_a_zst,
                  Name_a_lz4, Name_a_br, Name_a_z, Name_a_dat}

\* A damaged artifact of codec c: its header is intact, no codec decodes it.
Damaged(c) == [codec |-> "damaged", data |-> "d1", head |-> FrameHeader(c)]
\* A file that is no artifact at all.
Garbage == [codec |-> "none", data |-> "d1", head |-> <<0, 1, 2>>]

ArtifactContents ==
    {Encoded(c, "d1") : c \in Codecs} \cup {Damaged(c) : c \in Codecs} \cup {Garbage}

ArtifactInputs ==
    {[exists |-> TRUE, name |-> n, content |-> c] :
        n \in ArtifactNames, c \in ArtifactContents}
    \cup {[exists |-> FALSE, name |-> n, content |-> Garbage] : n \in ArtifactNames}

\* The compression_type values a sidecar or a metadata dict may carry: the
\* codecs and one name that is no codec.
MetadataTypes == Codecs \cup {"rar"}

NoSidecar == [state |-> "absent", has_type |-> FALSE, compression_type |-> "",
              has_path |-> FALSE, original_path |-> NoPath]

\* The sidecars: none, one that is no JSON, one for each compression_type,
\* one without the compression_type key and one without any key.
Sidecars ==
    {NoSidecar, [NoSidecar EXCEPT !.state = "corrupt"],
     [NoSidecar EXCEPT !.state = "ok"],
     [NoSidecar EXCEPT !.state = "ok", !.has_path = TRUE,
                       !.original_path = PathOf(<<>>, Name_a_txt)]}
    \cup {[state |-> "ok", has_type |-> TRUE, compression_type |-> t,
           has_path |-> TRUE, original_path |-> PathOf(<<>>, Name_a_txt)] :
            t \in MetadataTypes}

NoMetadata == [given |-> FALSE, has_type |-> FALSE, compression_type |-> ""]

MetadataArgs ==
    {NoMetadata, [given |-> TRUE, has_type |-> FALSE, compression_type |-> ""]}
    \cup {[given |-> TRUE, has_type |-> TRUE, compression_type |-> t] :
            t \in MetadataTypes}

NoResult == [call |-> "none", raised |-> FALSE, returned |-> FALSE, at |-> NoPath,
             inner |-> EndedEarly("none", "")]

\* SpecDecomp's variables in the other specifications.
IdleDecomp ==
    /\ input_file = [exists |-> FALSE, name |-> <<>>, content |-> Garbage]
    /\ sidecar = NoSidecar
    /\ metadata_arg = NoMetadata
    /\ dresult = NoResult
    /\ dpc = "idle"

InitDecomp ==
    /\ available \in SUBSET OptionalCodecs
    /\ input_file \in ArtifactInputs
    /\ sidecar \in Sidecars
    /\ metadata_arg \in MetadataArgs
    /\ dresult = NoResult
    /\ dpc = "ready"
    /\ IdleRecommend
    /\ IdleTree
    /\ IdleCompressFile
    /\ IdleAnalyze
    /\ IdleVerify

\* Decompressor.decompress_file(input_file, output_file, metadata_arg): it
\* returns True or raises.
CallDecompressor ==
    /\ dpc = "ready"
    /\ LET r == DecompressorDecompressFile(input_file, sidecar, metadata_arg, available)
       IN  dresult' = [call |-> "decompressor", raised |-> r.outcome # "ok",
                       returned |-> r.outcome = "ok",
                       at |-> PathOf(<<>>, Name_a_txt), inner |-> r]
    /\ dpc' = "done"
    /\ UNCHANGED <<available, input_file, sidecar, metadata_arg, recVars, treeVars, cfVars, anVars, verVars>>

\* CompressEngine.decompress_file(input_file, output_dir): the metadata is
\* read from the sidecar, the caller passes none.
CallEngine ==
    /\ dpc = "ready"
    /\ metadata_arg = NoMetadata
    /\ LET r == EngineDecompressFile(input_file, sidecar, <<>>, available)
       IN  dresult' = [call |-> "engine", raised |-> r.raised,
                       returned |-> r.returned, at |-> r.at, inner |-> r.inner]
    /\ dpc' = "done"
    /\ UNCHANGED <<available, input_file, sidecar, metadata_arg, recVars, treeVars, cfVars, anVars, verVars>>

NextDecomp == CallDecompressor \/ CallEngine

SpecDecomp == InitDecomp /\ [][NextDecomp]_vars

(***************************************************************************)
(* FileAnalyzer: classification and analysis of one file                   *)
(***************************************************************************)
\* FileAnalyzer.file_categories: the extensions of each category.
file_categories ==
    [c \in Categories |->
        CASE c = "text" ->
                {<<".", "t", "x", "t">>,
                 <<".", "l", "o", "g">>,
                 <<".", "x", "m", "l">>,
                 <<".", "j", "s", "o", "n">>,
                 <<".", "h", "t", "m", "l">>,
                 <<".", "c", "s", "s">>,
                 <<".", "j", "s">>,
                 <<".", "l", "u", "a">>,
                 <<".", "p", "y">>,
                 <<".", "c">>,
                 <<".", "c", "p", "p">>,
                 <<".", "h">>,
                 <<".", "j", "a", "v", "a">>}
          [] c = "image" ->
                {<<".", "p", "n", "g">>,
                 <<".", "j", "p", "g">>,
                 <<".", "j", "p", "e", "g">>,
                 <<".", "b", "m", "p">>,
                 <<".", "g", "i", "f">>,
                 <<".", "t", "g", "a">>,
                 <<".", "w", "e", "b", "p">>}
          [] c = "audio" ->
                {<<".", "w", "a", "v">>,
                 <<".", "m", "p", "3">>,
                 <<".", "o", "g", "g">>,
                 <<".", "f", "l", "a", "c">>,
                 <<".", "a", "a", "c">>}
          [] c = "video" ->
                {<<".", "m", "p", "4">>,
                 <<".", "a", "v", "i">>,
                 <<".", "m", "o", "v">>,
                 <<".", "m", "k", "v">>,
                 <<".", "w", "e", "b", "m">>}
          [] c = "archive" ->
                {<<".", "z", "i", "p">>,
                 <<".", "r", "a", "r">>,
                 <<".", "7", "z">>,
                 <<".", "t", "a", "r">>,
                 <<".", "g", "z">>,
                 <<".", "b", "z", "2">>,
                 <<".", "x", "z">>}
          [] c = "executable" ->
                {<<".", "e", "x", "e">>,
                 <<".", "d", "l", "l">>,
                 <<".", "s", "o">>,
                 <<".", "b", "i", "n">>}
          [] c = "model" ->
                {<<".", "o", "b", "j">>,
                 <<".", "f", "b", "x">>,
                 <<".", "d", "a", "e">>,
                 <<".", "b", "l", "e", "n", "d">>,
                 <<".", "3", "d", "s">>,
                 <<".", "g", "l", "b">>,
                 <<".", "g", "l", "t", "f">>}
          [] c = "shader" ->
                {<<".", "g", "l", "s", "l">>,
                 <<".", "h", "l", "s", "l">>,
                 <<".", "s", "h", "a", "d", "e", "r">>,
                 <<".", "v", "e", "r", "t">>,
                 <<".", "f", "r", "a", "g">>,
                 <<".", "c", "o", "m", "p">>}
          [] c = "font" ->
                {<<".", "t", "t", "f">>,
                 <<".", "o", "t", "f">>,
                 <<".", "w", "o", "f", "f">>,
                 <<".", "w", "o", "f", "f", "2">>}
          [] c = "database" ->
                {<<".", "d", "b">>,
                 <<".", "s", "q", "l", "i", "t", "e">>,
                 <<".", "s", "q", "l">>}
          [] c = "gamedata" ->
                {<<".", "u", "n", "i", "t", "y", "3", "d">>,
                 <<".", "a", "s", "s", "e", "t">>,
                 <<".", "p", "a", "k">>,
                 <<".", "u", "a", "s", "s", "e", "t">>,
                 <<".", "d", "a", "t">>,
                 <<".", "s", "a", "v">>}]

\* extension_to_category.get(extension), "" on a miss.
CategoryOfExtension(extension) ==
    IF \E c \in Categories : extension \in file_categories[c]
    THEN CHOOSE c \in Categories : extension \in file_categories[c]
    ELSE ""

\* str.lower on one character.
LowerChar(ch) ==
    CASE ch = "A" -> "a"
      [] ch = "B" -> "b"
      [] ch = "C" -> "c"
      [] ch = "D" -> "d"
      [] ch = "E" -> "e"
      [] ch = "F" -> "f"
      [] ch = "G" -> "g"
      [] ch = "H" -> "h"
      [] ch = "I" -> "i"
      [] ch = "J" -> "j"
      [] ch = "K" -> "k"
      [] ch = "L" -> "l"
      [] ch = "M" -> "m"
      [] ch = "N" -> "n"
      [] ch = "O" -> "o"
      [] ch = "P" -> "p"
      [] ch = "Q" -> "q"
      [] ch = "R" -> "r"
      [] ch = "S" -> "s"
      [] ch = "T" -> "t"
      [] ch = "U" -> "u"
      [] ch = "V" -> "v"
      [] ch = "W" -> "w"
      [] ch = "X" -> "x"
      [] ch = "Y" -> "y"
      [] ch = "Z" -> "z"
      [] OTHER -> ch

\* str.lower
Lower(s) == [i \in 1..Len(s) |-> LowerChar(s[i])]

\* The extensions _is_likely_compressible treats as already compressed.
compressed_extensions ==
    {<<".", "j", "p", "g">>,
     <<".", "j", "p", "e", "g">>,
     <<".", "p", "n", "g">>,
     <<".", "g", "i", "f">>,
     <<".", "m", "p", "3">>,
     <<".", "m", "p", "4">>,
     <<".", "z", "i", "p">>,
     <<".", "r", "a", "r">>,
     <<".", "7", "z">>,
     <<".", "g", "z">>,
     <<".", "x", "z">>,
     <<".", "b", "z", "2">>,
     <<".", "w", "e", "b", "p">>,
     <<".", "w", "e", "b", "m">>,
     <<".", "o", "p", "u", "s">>,
     <<".", "a", "a", "c">>}

\* A sniffed media type is the pair of its type and subtype; magic.from_file
\* raising is the pair <<"error", "">>.
MimeError == <<"error", "">>

\* A variant of the classifier that asks the sniffed media type first and the
\* extension table on a miss.
DetermineFileTypeSniffFirst(f, extension) ==
    IF f.mime[1] \in {"text", "image", "audio", "video"} THEN f.mime[1]
    ELSE IF CategoryOfExtension(extension) # "" THEN CategoryOfExtension(extension)
    ELSE "gamedata"

\* FileAnalyzer._determine_file_type(file_path, extension)
DetermineFileType(f, extension) ==
    LET mime_type == f.mime
        path == Lower(f.name)
    IN  IF CategoryOfExtension(extension) # "" THEN CategoryOfExtension(extension)
        ELSE IF mime_type = MimeError THEN "gamedata"
        ELSE IF mime_type[1] = "text" THEN "text"
        ELSE IF mime_type[1] = "image" THEN "image"
        ELSE IF mime_type[1] = "audio" THEN "audio"
        ELSE IF mime_type[1] = "video" THEN "video"
        ELSE IF mime_type \in {<<"application", "x-executable">>,
                               <<"application", "x-dosexec">>,
                               <<"application", "x-sharedlib">>} THEN "executable"
        ELSE IF mime_type \in {<<"application", "zip">>,
                               <<"application", "x-rar-compressed">>,
                               <<"application", "x-7z-compressed">>} THEN "archive"
        ELSE IF mime_type = <<"application", "octet-stream">>
             THEN IF \E e \in {<<".", "m", "o", "d", "e", "l">>, <<".", "m", "e", "s", "h">>,
                               <<".", "o", "b", "j">>, <<".", "f", "b", "x">>} :
                        EndsWith(path, e) THEN "model"
                  ELSE IF \E e \in {<<".", "s", "h", "a", "d", "e", "r">>,
                                    <<".", "v", "e", "r", "t">>,
                                    <<".", "f", "r", "a", "g">>} :
                        EndsWith(path, e) THEN "shader"
                  ELSE "gamedata"
        ELSE "gamedata"

\* The signatures _is_likely_compressible looks for at the start of the data.
signatures ==
    {<<80, 75, 3, 4>>, <<82, 97, 114, 33, 26>>, <<31, 139>>, <<66, 90, 104>>,
     <<253, 55, 122, 88, 90>>, <<137, 80, 78, 71>>, <<255, 216, 255>>}

\* FileAnalyzer._is_likely_compressible(data, extension, entropy); `head` is
\* the start of data and `length` is len(data).
IsLikelyCompressible(head, length, extension, entropy) ==
    IF entropy # 0 /\ entropy > EntropyIncompressible THEN FALSE
    ELSE IF extension \in compressed_extensions THEN FALSE
    ELSE IF length >= 4 /\ \E sig \in signatures : StartsWith(head, sig) THEN FALSE
    ELSE TRUE

\* The size above which analyze_file skips the statistics (100 MB).
LargeFileCeiling == 104857600
\* The content cap of analyze_file (5 MB).
ContentCap == 5242880
\* The band of file sizes in which chunk similarity is computed (1 KB, 10 MB).
SimilarityMinSize == 1024
SimilarityMaxSize == 10485760

\* The profile analyze_file falls back to.
BasicInfo(f, extension) ==
    [file_type |-> DetermineFileType(f, extension), extension |-> extension,
     entropy |-> None, is_compressible |-> TRUE, chunk_similarity |-> None]

\* FileAnalyzer.analyze_file(file_path).  The content statistics of a file
\* (its entropy and the similarity of its chunks) are given with the file.
AnalyzeFile(f) ==
    LET extension == Lower(Suffix(f.name))
        length == IF f.size < ContentCap THEN f.size ELSE ContentCap
    IN  IF ~f.stat_ok THEN [raised |-> TRUE, info |-> BasicInfo(f, extension)]
        ELSE IF f.size > LargeFileCeiling \/ ~f.readable
        THEN [raised |-> FALSE, info |-> BasicInfo(f, extension)]
        ELSE [raised |-> FALSE,
              info |-> [file_type |-> DetermineFileType(f, extension),
                        extension |-> extension,
                        entropy |-> f.entropy,
                        is_compressible |->
                            IsLikelyCompressible(f.head, length, extension, f.entropy),
                        chunk_similarity |->
                            IF SimilarityMinSize <= f.size /\ f.size <= SimilarityMaxSize
                            THEN f.chunk_similarity ELSE None]]

(***************************************************************************)
(* SpecAnalyze: analyze_file(file_path) and                                *)
(* _is_likely_compressible(data, extension, entropy) on one file.          *)
(***************************************************************************)
Name_a == <<"a">>

\* The starts of the sample files: each signature alone, each signature
\* followed by more bytes, and one start that is no signature.
PlainHead == <<76, 111, 114, 101>>
SampleHeads ==
    signatures \cup {sig \o <<1, 2, 3>> : sig \in signatures} \cup {PlainHead}

\* _calculate_entropy of a sample of at most five bytes, in tenths of a bit:
\* log2(n) for n distinct bytes, 0.9 for three bytes two of which are equal.
SampleEntropy(head) ==
    LET n == Len(head)
        distinct == Cardinality({head[i] : i \in 1..n})
    IN  CASE distinct = n /\ n = 2 -> 10
          [] distinct = n /\ n = 3 -> 15
          [] distinct = n /\ n = 4 -> 20
          [] distinct = n /\ n = 5 -> 23
          [] n = 3 /\ distinct = 2 -> 9

\* The sample files: a file that is its start and nothing more, a 2 KB file
\* of any entropy, and a file above the 100 MB ceiling.
SampleFiles ==
    {[exists |-> TRUE, name |-> n, size |-> sz, head |-> h, entropy |-> e,
      chunk_similarity |-> 0, mime |-> <<"application", "octet-stream">>,
      stat_ok |-> TRUE, readable |-> rd] :
        n \in {Name_a_dat, Name_a_gz, Name_a_txt, Name_a},
        sz \in {0, 2048, LargeFileCeiling + 1},
        h \in SampleHeads, e \in EntropyValues, rd \in BOOLEAN}

\* Names for the classifier: extensions of the table in either case,
\* extensions outside it that the name patterns know or do not know, a dot
\* file and a name without extension.
Name_a_json == <<"a", ".", "j", "s", "o", "n">>
Name_a_jpg == <<"a", ".", "j", "p", "g">>
Name_A_JPG == <<"A", ".", "J", "P", "G">>
Name_a_mesh == <<"a", ".", "m", "e", "s", "h">>
Name_a_MODEL == <<"a", ".", "M", "O", "D", "E", "L">>
Name_dot_vert == <<".", "v", "e", "r", "t">>
Name_a_xyz == <<"a", ".", "x", "y", "z">>
ClassifiedNames ==
    {Name_a_txt, Name_a_json, Name_a_jpg, Name_A_JPG, Name_a_mesh, Name_a_MODEL,
     Name_dot_vert, Name_a_xyz, Name_a_dat, Name_a}

\* What magic.from_file answers: a type of each branch of the classifier, two
\* types it has no branch for, and an error.
SniffedTypes ==
    {<<"text", "plain">>, <<"image", "png">>, <<"audio", "mpeg">>, <<"video", "mp4">>,
     <<"application", "x-dosexec">>, <<"application", "zip">>,
     <<"application", "octet-stream">>, <<"application", "json">>,
     <<"inode", "x-empty">>, MimeError}

\* The files the classifier is run on: 2 KB of text-like content under each
\* name and each sniffed type; a file that cannot be read cannot be sniffed.
ClassifiedFiles ==
    {[exists |-> TRUE, name |-> n, size |-> 2048, head |-> PlainHead \o <<1, 2, 3>>,
      entropy |-> 45, chunk_similarity |-> 0, mime |-> m,
      stat_ok |-> TRUE, readable |-> m # MimeError] :
        n \in ClassifiedNames, m \in SniffedTypes}

InitAnalyze ==
    /\ available \in SUBSET OptionalCodecs
    /\ an_file \in
          {[f EXCEPT !.size = Len(f.head), !.entropy = SampleEntropy(f.head)] :
              f \in {x \in SampleFiles : x.size = 0 /\ Len(x.head) <= 5}}
          \cup {f \in SampleFiles : f.size # 0 /\ Len(f.head) > 5}
          \cup ClassifiedFiles
    /\ an_result = [call |-> "none"]
    /\ an_pc = "ready"
    /\ IdleRecommend
    /\ IdleDecomp
    /\ IdleTree
    /\ IdleCompressFile
    /\ IdleVerify

\* analyze_file(file_path)
Analyze ==
    /\ an_pc = "ready"
    /\ an_result' = [call |-> "analyze_file",
                     is_compressible |-> AnalyzeFile(an_file).info.is_compressible,
                     info |-> AnalyzeFile(an_file).info]
    /\ an_pc' = "done"
    /\ UNCHANGED <<available, an_file, recVars, decVars, treeVars, cfVars, verVars>>

\* _is_likely_compressible(content, extension, entropy) on the content
\* analyze_file reads from a readable file.
CheckCompressible ==
    /\ an_pc = "ready"
    /\ an_file.readable
    /\ LET length == IF an_file.size < ContentCap THEN an_file.size ELSE ContentCap
           extension == Lower(Suffix(an_file.name))
       IN  an_result' =
               [call |-> "_is_likely_compressible",
                is_compressible |->
                    IsLikelyCompressible(an_file.head, length, extension, an_file.entropy),
                info |-> BasicInfo(an_file, extension)]
    /\ an_pc' = "done"
    /\ UNCHANGED <<available, an_file, recVars, decVars, treeVars, cfVars, verVars>>

NextAnalyze == Analyze \/ CheckCompressible

SpecAnalyze == InitAnalyze /\ [][NextAnalyze]_vars

(***************************************************************************)
(* FileVerifier.  A file's content is the sequence of its bytes; a digest  *)
(* is the pair of the hash algorithm and the content it was computed from  *)
(* (a hash without collisions).                                            *)
(***************************************************************************)
\* The keys of FileVerifier.hash_algorithms.
hash_algorithms == {"crc32", "md5", "sha1", "sha256"}
default_hash_algorithm == "crc32"
verification_extension == <<".", "g", "c", "v", "e", "r", "i", "f", "y">>

\* self.hash_algorithms[algo](content)
Digest(algo, content) == <<algo, content>>

\* The 'error' entries of verify_file's result: none, a size mismatch, a hash
\* mismatch for one algorithm, no verification data, unreadable data.
NoError == [kind |-> "", algo |-> ""]
VerifyError(kind, algo) == [kind |-> kind, algo |-> algo]

\* A verification record: file_size (the key may be missing) and hashes, the
\* (algorithm, digest) entries in the order of the dict.
NoRecord == [given |-> FALSE, has_size |-> FALSE, file_size |-> 0, hashes |-> <<>>]

\* generate_verification_data(file_path, algorithms); an empty sequence
\* stands for algorithms being None or [].
GenerateVerificationData(file, algorithms) ==
    LET algos == IF algorithms = <<>> THEN <<default_hash_algorithm>> ELSE algorithms
    IN  IF ~file.exists THEN [raised |-> TRUE, error |-> "NotFound", data |-> NoRecord]
        ELSE IF \E i \in 1..Len(algos) : algos[i] \notin hash_algorithms
        THEN [raised |-> TRUE, error |-> "UnknownHashAlgorithm", data |-> NoRecord]
        ELSE [raised |-> FALSE, error |-> "",
              data |-> [given |-> TRUE, has_size |-> TRUE,
                        file_size |-> Len(file.content),
                        hashes |-> [i \in 1..Len(algos) |->
                                       [algo |-> algos[i],
                                        digest |-> Digest(algos[i], file.content)]]]]

\* The entries of a record's hashes whose digest differs from the one the
\* current record holds for the same algorithm.
HashMismatches(reference, current) ==
    {i \in 1..Len(reference.hashes) :
        \E j \in 1..Len(current.hashes) :
            /\ current.hashes[j].algo = reference.hashes[i].algo
            /\ current.hashes[j].digest # reference.hashes[i].digest}

\* The mutant of verify_file that compares the hashes before the size.
VerifyFileHashFirst(file, reference_data, algorithms, stored) ==
    LET reference == IF reference_data.given THEN reference_data ELSE stored.record
        keys == [i \in 1..Len(reference.hashes) |-> reference.hashes[i].algo]
        generated == GenerateVerificationData(
                         file, IF algorithms # <<>> THEN algorithms ELSE keys)
        current == generated.data
        bad == HashMismatches(reference, current)
        first == CHOOSE i \in bad : \A j \in bad : i <= j
    IN  IF ~file.exists
        THEN [raised |-> TRUE, verified |-> FALSE, error |-> VerifyError("NotFound", ""),
              current |-> NoRecord]
        ELSE IF ~reference_data.given /\ stored.state = "corrupt"
        THEN [raised |-> FALSE, verified |-> FALSE, error |-> VerifyError("load", ""),
              current |-> NoRecord]
        ELSE IF ~reference_data.given /\ stored.state = "absent"
        THEN [raised |-> FALSE, verified |-> FALSE, error |-> VerifyError("no_data", ""),
              current |-> NoRecord]
        ELSE IF generated.raised
        THEN [raised |-> TRUE, verified |-> FALSE,
              error |-> VerifyError(generated.error, ""), current |-> NoRecord]
        ELSE IF bad # {}
        THEN [raised |-> FALSE, verified |-> FALSE,
              error |-> VerifyError("hash", reference.hashes[first].algo),
              current |-> current]
        ELSE IF ~reference.has_size \/ current.file_size # reference.file_size
        THEN [raised |-> FALSE, verified |-> FALSE, error |-> VerifyError("size", ""),
              current |-> current]
        ELSE [raised |-> FALSE, verified |-> TRUE, error |-> NoError, current |-> current]

\* verify_file(file_path, reference_data, algorithms); `stored` is the file
\* at file_path.with_suffix('.gcverify'): absent, unreadable, or a record.
VerifyFile(file, reference_data, algorithms, stored) ==
    LET reference == IF reference_data.given THEN reference_data ELSE stored.record
        keys == [i \in 1..Len(reference.hashes) |-> reference.hashes[i].algo]
        generated == GenerateVerificationData(
                         file, IF algorithms # <<>> THEN algorithms ELSE keys)
        current == generated.data
        bad == HashMismatches(reference, current)
        first == CHOOSE i \in bad : \A j \in bad : i <= j
    IN  IF ~file.exists
        THEN [raised |-> TRUE, verified |-> FALSE, error |-> VerifyError("NotFound", ""),
              current |-> NoRecord]
        ELSE IF ~reference_data.given /\ stored.state = "corrupt"
        THEN [raised |-> FALSE, verified |-> FALSE, error |-> VerifyError("load", ""),
              current |-> NoRecord]
        ELSE IF ~reference_data.given /\ stored.state = "absent"
        THEN [raised |-> FALSE, verified |-> FALSE, error |-> VerifyError("no_data", ""),
              current |-> NoRecord]
        ELSE IF generated.raised
        THEN [raised |-> TRUE, verified |-> FALSE,
              error |-> VerifyError(generated.error, ""), current |-> NoRecord]
        ELSE IF ~reference.has_size \/ current.file_size # reference.file_size
        THEN [raised |-> FALSE, verified |-> FALSE, error |-> VerifyError("size", ""),
              current |-> current]
        ELSE IF bad # {}
        THEN [raised |-> FALSE, verified |-> FALSE,
              error |-> VerifyError("hash", reference.hashes[first].algo),
              current |-> current]
        ELSE [raised |-> FALSE, verified |-> TRUE, error |-> NoError, current |-> current]

(***************************************************************************)
(* CompressionAlgorithms.compress_file                                     *)
(***************************************************************************)
\* algorithms[c]['level_range']
level_range(c) ==
    CASE c = "zlib"   -> <<1, 9>>
      [] c = "gzip"   -> <<1, 9>>
      [] c = "lzma"   -> <<0, 9>>
      [] c = "bz2"    -> <<1, 9>>
      [] c = "zstd"   -> <<1, 22>>
      [] c = "lz4"    -> <<0, 16>>
      [] c = "brotli" -> <<0, 11>>

\* algorithms[c]['default_level']
default_level(c) ==
    CASE c = "zlib"   -> 6
      [] c = "gzip"   -> 6
      [] c = "lzma"   -> 6
      [] c = "bz2"    -> 9
      [] c = "zstd"   -> 3
      [] c = "lz4"    -> 9
      [] c = "brotli" -> 11

\* The 'compression_type' entry of the dict _compress_<c> returns.
CompressorReturn(c) ==
    CASE c = "zlib"   -> "zlib"
      [] c = "gzip"   -> "gzip"
      [] c = "lzma"   -> "lzma"
      [] c = "bz2"    -> "bz2"
      [] c = "zstd"   -> "zstd"
      [] c = "lz4"    -> "lz4"
      [] c = "brotli" -> "brotli"

\* The output file after the backend calls `attempts` on an input holding
\* `data`: what the last call wrote when it succeeded.
WrittenOutput(attempts, data) ==
    IF attempts # <<>> /\ attempts[Len(attempts)].ok
    THEN [exists |-> TRUE,
          content |-> Encoded(attempts[Len(attempts)].algorithm, data)]
    ELSE [exists |-> FALSE, content |-> Garbage]

\* The mutant of compress_file that raises on the first backend failure.
CompressFileNoRetry(exists, algorithm, level, avail, failing) ==
    LET alg == IF algorithm \notin Codecs \/ algorithm \notin AvailableAlgorithms(avail)
               THEN fallback_algorithm ELSE algorithm
        lvl == IF level = None THEN default_level(alg) ELSE level
        attempt == [algorithm |-> alg, level |-> lvl, ok |-> alg \notin failing]
    IN  [raised |-> ~exists \/ alg \in failing,
         error |-> IF ~exists THEN "NotFound"
                   ELSE IF alg \in failing THEN "BackendFailure" ELSE "",
         attempts |-> IF exists THEN <<attempt>> ELSE <<>>,
         metadata |-> [compression_type |-> CompressorReturn(alg), algorithm |-> alg,
                       level |-> lvl]]

\* The mutant of compress_file that hands the requested level to the backend
\* whatever the codec's level_range.
CompressFileNoClamp(exists, algorithm, level, avail, failing) ==
    LET alg == IF algorithm \notin Codecs \/ algorithm \notin AvailableAlgorithms(avail)
               THEN fallback_algorithm ELSE algorithm
        lvl == IF level = None THEN default_level(alg) ELSE level
        attempt == [algorithm |-> alg, level |-> lvl, ok |-> alg \notin failing]
        retry == [algorithm |-> fallback_algorithm, level |-> lvl,
                  ok |-> fallback_algorithm \notin failing]
        failed == [compression_type |-> "", algorithm |-> "", level |-> None]
    IN  IF ~exists
        THEN [raised |-> TRUE, error |-> "NotFound", attempts |-> <<>>,
              metadata |-> failed]
        ELSE IF alg \notin failing
        THEN [raised |-> FALSE, error |-> "", attempts |-> <<attempt>>,
              metadata |-> [compression_type |-> CompressorReturn(alg),
                            algorithm |-> alg, level |-> lvl]]
        ELSE IF alg # fallback_algorithm /\ retry.ok
        THEN [raised |-> FALSE, error |-> "", attempts |-> <<attempt, retry>>,
              metadata |-> [compression_type |-> CompressorReturn(fallback_algorithm),
                            algorithm |-> fallback_algorithm, level |-> lvl]]
        ELSE [raised |-> TRUE, error |-> "BackendFailure",
              attempts |-> IF alg # fallback_algorithm THEN <<attempt, retry>>
                           ELSE <<attempt>>,
              metadata |-> failed]

\* The mutant of compress_file that records the codec it was asked for, not
\* the one it ended up calling.
CompressFileKeepsRequested(exists, algorithm, level, avail, failing) ==
    LET alg == IF algorithm \notin Codecs \/ algorithm \notin AvailableAlgorithms(avail)
               THEN fallback_algorithm ELSE algorithm
        lvl == IF level = None THEN default_level(alg)
               ELSE IF level < level_range(alg)[1] \/ level > level_range(alg)[2]
                    THEN default_level(alg)
               ELSE level
        attempt == [algorithm |-> alg, level |-> lvl, ok |-> alg \notin failing]
        retry == [algorithm |-> fallback_algorithm,
                  level |-> default_level(fallback_algorithm),
                  ok |-> fallback_algorithm \notin failing]
        failed == [compression_type |-> "", algorithm |-> "", level |-> None]
    IN  IF ~exists
        THEN [raised |-> TRUE, error |-> "NotFound", attempts |-> <<>>,
              metadata |-> failed]
        ELSE IF alg \notin failing
        THEN [raised |-> FALSE, error |-> "", attempts |-> <<attempt>>,
              metadata |-> [compression_type |-> CompressorReturn(alg),
                            algorithm |-> alg, level |-> lvl]]
        ELSE IF alg # fallback_algorithm /\ retry.ok
        THEN [raised |-> FALSE, error |-> "", attempts |-> <<attempt, retry>>,
              metadata |-> [compression_type |-> CompressorReturn(alg),
                            algorithm |-> alg, level |-> retry.level]]
        ELSE [raised |-> TRUE, error |-> "BackendFailure",
              attempts |-> IF alg # fallback_algorithm THEN <<attempt, retry>>
                           ELSE <<attempt>>,
              metadata |-> failed]

\* compress_file(input_file, output_file, algorithm, level) in an environment
\* where the backends in `failing` raise.  `attempts` lists the backend calls
\* made, in order, each with whether it succeeded; `metadata` is the returned
\* dict.
RECURSIVE CompressFile(_, _, _, _, _)
CompressFile(exists, algorithm, level, avail, failing) ==
    LET alg == IF algorithm \notin Codecs \/ algorithm \notin AvailableAlgorithms(avail)
               THEN fallback_algorithm ELSE algorithm
        lvl == IF level = None THEN default_level(alg)
               ELSE IF level < level_range(alg)[1] \/ level > level_range(alg)[2]
                    THEN default_level(alg)
               ELSE level
        attempt == [algorithm |-> alg, level |-> lvl, ok |-> alg \notin failing]
        retry == CompressFile(exists, fallback_algorithm, None, avail, failing)
    IN  IF ~exists
        THEN [raised |-> TRUE, error |-> "NotFound", attempts |-> <<>>,
              metadata |-> [compression_type |-> "", algorithm |-> "", level |-> None]]
        ELSE IF alg \notin failing
        THEN [raised |-> FALSE, error |-> "", attempts |-> <<attempt>>,
              metadata |-> [compression_type |-> CompressorReturn(alg),
                            algorithm |-> alg, level |-> lvl]]
        ELSE IF alg # fallback_algorithm
        THEN [retry EXCEPT !.attempts = <<attempt>> \o retry.attempts]
        ELSE [raised |-> TRUE, error |-> "BackendFailure", attempts |-> <<attempt>>,
              metadata |-> [compression_type |-> "", algorithm |-> "", level |-> None]]

(***************************************************************************)
(* SpecCompressFile: compress_file(input_file, output_file, algorithm,     *)
(* level), then Decompressor.decompress_file(output_file, restored,        *)
(* metadata) with the metadata compress_file returned.                     *)
(***************************************************************************)
\* The level arguments: None, and integers inside, on and outside the bounds
\* of every level_range.
Levels == {None, -3, 0, 1, 5, 9, 10, 11, 12, 16, 17, 22, 23}

\* The algorithm arguments: the codecs and one name the table does not hold.
AlgorithmArgs == Codecs \cup {"rar"}

\* The sets of compression backends that raise on the input.
FailingBackends == {{}, {"zlib"}, Codecs \ {fallback_algorithm}, Codecs}

InitCompressFile ==
    /\ available \in SUBSET OptionalCodecs
    /\ cf_args \in [exists : BOOLEAN, algorithm : AlgorithmArgs, level : Levels,
                    data : {"d1"}]
    /\ cf_failing \in FailingBackends
    /\ cf_result = [called |-> FALSE]
    /\ cf_restore = [called |-> FALSE]
    /\ cf_pc = "ready"
    /\ IdleRecommend
    /\ IdleDecomp
    /\ IdleTree
    /\ IdleAnalyze
    /\ IdleVerify

\* compress_file(input_file, output_file, algorithm, level): it returns the
\* metadata dict or raises.
CallCompressFile ==
    /\ cf_pc = "ready"
    /\ LET r == CompressFile(cf_args.exists, cf_args.algorithm, cf_args.level,
                             available, cf_failing)
       IN  cf_result' = [called |-> TRUE, raised |-> r.raised, error |-> r.error,
                         attempts |-> r.attempts, metadata |-> r.metadata,
                         output_file |-> WrittenOutput(r.attempts, cf_args.data)]
    /\ cf_pc' = "compressed"
    /\ UNCHANGED <<available, cf_args, cf_failing, cf_restore, recVars, decVars, treeVars, anVars, verVars>>

\* Decompressor.decompress_file(output_file, restored, metadata) on what
\* compress_file wrote and returned.
CallDecompressWithMetadata ==
    /\ cf_pc = "compressed"
    /\ ~cf_result.raised
    /\ LET file == [exists |-> cf_result.output_file.exists, name |-> Name_a_gcmp,
                    content |-> cf_result.output_file.content]
           metadata == [given |-> TRUE, has_type |-> TRUE,
                        compression_type |-> cf_result.metadata.compression_type]
           r == DecompressorDecompressFile(file, NoSidecar, metadata, available)
       IN  cf_restore' = [called |-> TRUE, raised |-> r.outcome # "ok", inner |-> r]
    /\ cf_pc' = "restored"
    /\ UNCHANGED <<available, cf_args, cf_failing, cf_result, recVars, decVars, treeVars, anVars, verVars>>

NextCompressFile == CallCompressFile \/ CallDecompressWithMetadata

SpecCompressFile == InitCompressFile /\ [][NextCompressFile]_vars

(***************************************************************************)
(* Spec: compress_directory(input_dir, output_dir, force=force), then      *)
(* decompress_directory(output_dir, dec_dir).  The three directories are   *)
(* disjoint; paths are relative to their root.                             *)
(***************************************************************************)
\* The most files the input directory holds.
MaxFiles == 2

Name_a_bin == <<"a", ".", "b", "i", "n">>
Name_e_dat == <<"e", ".", "d", "a", "t">>
Name_b_gcmp == <<"b", ".", "g", "c", "m", "p">>
Name_c_gcmeta == <<"c", ".", "g", "c", "m", "e", "t", "a">>
Name_l_txt == <<"l", ".", "t", "x", "t">>
Name_u_txt == <<"u", ".", "t", "x", "t">>
Name_stats == <<"c", "o", "m", "p", "r", "e", "s", "s", "i", "o", "n", "_",
                "s", "t", "a", "t", "s", ".", "j", "s", "o", "n">>

\* A file of the input tree: where it is, what it holds (`data` names its
\* bytes, `size` is st_size, `head` its first bytes), the statistics of its
\* content, what libmagic says of it and whether stat and open succeed.
\* `packed` is the size of its compressed payload.
TextFile ==
    [id |-> "a.txt", dir |-> <<>>, name |-> Name_a_txt, data |-> "text",
     size |-> 2048, packed |-> 100, entropy |-> 45, chunk_similarity |-> 0,
     head |-> <<76, 111, 114, 101>>, mime |-> <<"text", "plain">>,
     stat_ok |-> TRUE, readable |-> TRUE]
\* Random bytes, in the same directory and with the same stem as TextFile.
BinFile ==
    [id |-> "a.bin", dir |-> <<>>, name |-> Name_a_bin, data |-> "random",
     size |-> 2048, packed |-> 2050, entropy |-> 80, chunk_similarity |-> 0,
     head |-> <<7, 200, 13, 99>>, mime |-> <<"application", "octet-stream">>,
     stat_ok |-> TRUE, readable |-> TRUE]
\* A repetitive text file in a subdirectory.
NestedFile ==
    [id |-> "sub/a.txt", dir |-> <<"sub">>, name |-> Name_a_txt, data |-> "nested",
     size |-> 4096, packed |-> 40, entropy |-> 20, chunk_similarity |-> 100,
     head |-> <<97, 97, 97, 97>>, mime |-> <<"text", "plain">>,
     stat_ok |-> TRUE, readable |-> TRUE]
\* An empty file.
EmptyFile ==
    [id |-> "e.dat", dir |-> <<>>, name |-> Name_e_dat, data |-> "empty",
     size |-> 0, packed |-> 6, entropy |-> 0, chunk_similarity |-> 0,
     head |-> <<>>, mime |-> <<"inode", "x-empty">>,
     stat_ok |-> TRUE, readable |-> TRUE]
\* A file that carries the compressed extension already.
GcmpFile ==
    [id |-> "b.gcmp", dir |-> <<>>, name |-> Name_b_gcmp, data |-> "packed",
     size |-> 300, packed |-> 305, entropy |-> 75, chunk_similarity |-> 0,
     head |-> <<120, 156, 1, 2>>, mime |-> <<"application", "zlib">>,
     stat_ok |-> TRUE, readable |-> TRUE]
\* A sidecar lying in the input tree.
MetaFile ==
    [id |-> "c.gcmeta", dir |-> <<>>, name |-> Name_c_gcmeta, data |-> "json",
     size |-> 200, packed |-> 90, entropy |-> 48, chunk_similarity |-> 0,
     head |-> <<123, 10, 32, 32>>, mime |-> <<"application", "json">>,
     stat_ok |-> TRUE, readable |-> TRUE]
\* The compression_stats.json an earlier run left in the tree (the tests
\* compress a directory into a subdirectory of itself).
StatsFile ==
    [id |-> "compression_stats.json", dir |-> <<>>, name |-> Name_stats, data |-> "stats",
     size |-> 400, packed |-> 150, entropy |-> 47, chunk_similarity |-> 0,
     head |-> <<123, 10, 32, 32>>, mime |-> <<"application", "json">>,
     stat_ok |-> TRUE, readable |-> TRUE]
\* A dangling symbolic link: os.walk lists it, stat raises.
DanglingLink ==
    [id |-> "l.txt", dir |-> <<>>, name |-> Name_l_txt, data |-> "",
     size |-> 0, packed |-> 0, entropy |-> 0, chunk_similarity |-> 0,
     head |-> <<>>, mime |-> MimeError,
     stat_ok |-> FALSE, readable |-> FALSE]
\* A file that open() refuses (permissions): stat succeeds, reads raise.
UnreadableFile ==
    [id |-> "u.txt", dir |-> <<>>, name |-> Name_u_txt, data |-> "secret",
     size |-> 100, packed |-> 60, entropy |-> 40, chunk_similarity |-> 0,
     head |-> <<115, 101, 99, 114>>, mime |-> MimeError,
     stat_ok |-> TRUE, readable |-> FALSE]

FileUniverse == {TextFile, BinFile, NestedFile, EmptyFile, GcmpFile, MetaFile,
                 StatsFile, DanglingLink, UnreadableFile}

\* dict.update / dict[k] = v
Put(map, k, v) == [x \in DOMAIN map \cup {k} |-> IF x = k THEN v ELSE map[x]]

\* CompressEngine._get_all_files over files given by directory and name: all
\* of them but those whose name ends with the metadata extension.
GetAllFiles(files) == {f \in files : ~EndsWith(f.name, metadata_extension)}

\* The stats dict compress_directory starts from.
InitialStats ==
    [original_size_bytes |-> 0, compressed_size_bytes |-> 0, file_count |-> 0,
     skipped_count |-> 0, failed_count |-> 0,
     algorithm_usage |-> [c \in Codecs |-> 0],
     compression_by_type |->
        [t \in Categories |-> [original |-> 0, compressed |-> 0, count |-> 0]]]

\* What is recorded of an input file no iteration has reached.
NotProcessed ==
    [file |-> 0, skipped |-> 0, failed |-> 0, attempts |-> <<>>,
     recommended |-> "", raised |-> FALSE, artifact |-> NoPath]

\* The backends that raise for one file: none, every codec but the fallback,
\* or all of them; all of them when the file cannot be read.
BackendFailures(f) ==
    IF f.readable THEN {{}, Codecs \ {fallback_algorithm}, Codecs} ELSE {Codecs}

InitTree ==
    /\ available \in SUBSET OptionalCodecs
    /\ input_dir \in
          {[exists |-> FALSE, files |-> {}]}
          \cup {[exists |-> TRUE, files |-> fs] :
                  fs \in {x \in SUBSET FileUniverse : Cardinality(x) <= MaxFiles}}
    /\ force \in BOOLEAN
    /\ pc = "call"
    /\ todo = {}
    /\ out_files = EmptyMap
    /\ out_meta = EmptyMap
    /\ stats = EmptyMap
    /\ stats_file = FALSE
    /\ log = EmptyMap
    /\ dec_files = EmptyMap
    /\ success_count = 0
    /\ IdleRecommend
    /\ IdleDecomp
    /\ IdleCompressFile
    /\ IdleAnalyze
    /\ IdleVerify

envVars == <<available, input_dir, force, recVars, decVars, cfVars, anVars,
            verVars>>

\* compress_directory up to its loop: the existence check, analyze_directory
\* (whose get_file_size is outside its try) and the empty stats.
CompressDirectoryBegin ==
    /\ pc = "call"
    /\ IF ~input_dir.exists
       THEN /\ pc' = "returned_empty"
            /\ UNCHANGED <<todo, stats, log>>
       ELSE IF \E f \in GetAllFiles(input_dir.files) : ~f.stat_ok
       THEN /\ pc' = "raised"
            /\ UNCHANGED <<todo, stats, log>>
       ELSE /\ pc' = "compressing"
            /\ todo' = GetAllFiles(input_dir.files)
            /\ stats' = InitialStats
            /\ log' = [i \in {f.id : f \in GetAllFiles(input_dir.files)} |-> NotProcessed]
    /\ UNCHANGED <<envVars, out_files, out_meta, stats_file, dec_files, success_count>>

\* A variant of the skip test that leaves `force` out.
SkipsEveryCompressed(f) == Suffix(f.name) = compressed_extension

\* "Skip already compressed files": the test compress_directory makes on each
\* file before it reads its size.
SkipsAlreadyCompressed(f) == Suffix(f.name) = compressed_extension /\ ~force

\* The statistics update of one compressed file (lines 116-125).
StatsAfterSuccess(st, original_size, compressed_size, best_algorithm, file_type) ==
    [st EXCEPT
        !.compressed_size_bytes = @ + compressed_size,
        !.file_count = @ + 1,
        !.algorithm_usage[best_algorithm] = @ + 1,
        !.compression_by_type[file_type] =
            [original |-> @.original + original_size,
             compressed |-> @.compressed + compressed_size,
             count |-> @.count + 1]]

\* One iteration of compress_directory's loop, for the file f the walk yields
\* next, with the backends in `failing` raising and the sidecar write
\* succeeding or not.
CompressIteration(f, failing, meta_ok) ==
    LET relative_path == PathOf(f.dir, f.name)
        output_file == PathOf(f.dir, WithSuffix(f.name, compressed_extension))
        output_meta == PathOf(f.dir, WithSuffix(f.name, metadata_extension))
        original_size == f.size
        sized == [stats EXCEPT !.original_size_bytes = @ + original_size]
        analysis == AnalyzeFile(f)
        file_info_ == analysis.info
        best_algorithm == RecommendAlgorithm(file_info_)
        r == CompressFile(f.stat_ok, best_algorithm, None, available, failing)
        compressed_size == Len(FrameHeader(r.metadata.algorithm)) + f.packed
        artifact == [content |-> WrittenOutput(r.attempts, f.data).content,
                     size |-> compressed_size, from |-> f.id]
        metadata == [state |-> "ok", has_type |-> TRUE,
                     compression_type |-> r.metadata.compression_type,
                     algorithm |-> r.metadata.algorithm,
                     level |-> r.metadata.level,
                     has_path |-> TRUE, original_path |-> relative_path,
                     original_size |-> original_size,
                     compressed_size |-> compressed_size,
                     file_type |-> file_info_.file_type,
                     file_extension |-> file_info_.extension,
                     from |-> f.id]
        entry == [NotProcessed EXCEPT !.attempts = r.attempts,
                                      !.recommended = best_algorithm,
                                      !.raised = r.raised,
                                      !.artifact = output_file]
        failed == [sized EXCEPT !.failed_count = @ + 1]
        counted == StatsAfterSuccess(sized, original_size, compressed_size,
                                     best_algorithm, file_info_.file_type)
    IN  /\ todo' = todo \ {f}
        /\ IF SkipsAlreadyCompressed(f)
           THEN /\ stats' = [stats EXCEPT !.skipped_count = @ + 1]
                /\ log' = [log EXCEPT ![f.id].skipped = @ + 1]
                /\ pc' = pc
                /\ UNCHANGED <<out_files, out_meta>>
           ELSE IF ~f.stat_ok
           THEN /\ pc' = "raised"
                /\ UNCHANGED <<stats, log, out_files, out_meta>>
           ELSE IF analysis.raised \/ r.raised
           THEN /\ stats' = failed
                /\ log' = [log EXCEPT ![f.id] = [entry EXCEPT !.failed = 1]]
                /\ pc' = pc
                /\ UNCHANGED <<out_files, out_meta>>
           ELSE IF ~meta_ok
           THEN /\ stats' = failed
                /\ log' = [log EXCEPT ![f.id] = [entry EXCEPT !.failed = 1]]
                /\ out_files' = Put(out_files, output_file, artifact)
                /\ pc' = pc
                /\ UNCHANGED out_meta
           ELSE /\ out_files' = Put(out_files, output_file, artifact)
                /\ out_meta' = Put(out_meta, output_meta, metadata)
                /\ pc' = pc
                /\ IF original_size = 0
                   THEN \* the log line divides by original_size
                        /\ stats' = [counted EXCEPT !.failed_count = @ + 1]
                        /\ log' = [log EXCEPT ![f.id] =
                                      [entry EXCEPT !.file = 1, !.failed = 1]]
                   ELSE /\ stats' = counted
                        /\ log' = [log EXCEPT ![f.id] = [entry EXCEPT !.file = 1]]

CompressNextFile ==
    /\ pc = "compressing"
    /\ \E f \in todo : \E failing \in BackendFailures(f) : \E meta_ok \in BOOLEAN :
          CompressIteration(f, failing, meta_ok)
    /\ UNCHANGED <<envVars, stats_file, dec_files, success_count>>

\* compress_directory after its loop: the overall ratio and
\* compression_stats.json; it returns stats.
CompressDirectoryEnd ==
    /\ pc = "compressing"
    /\ todo = {}
    /\ stats_file' = TRUE
    /\ pc' = "returned"
    /\ UNCHANGED <<envVars, todo, out_files, out_meta, stats, log, dec_files,
                   success_count>>

\* The files below the output directory.
OutputPaths ==
    DOMAIN out_files \cup DOMAIN out_meta
    \cup (IF stats_file THEN {PathOf(<<>>, Name_stats)} ELSE {})

\* decompress_directory(output_dir, dec_dir) up to its loop.
DecompressDirectoryBegin ==
    /\ pc = "returned"
    /\ todo' = GetAllFiles(OutputPaths)
    /\ pc' = "decompressing"
    /\ UNCHANGED <<envVars, out_files, out_meta, stats, stats_file, log, dec_files,
                   success_count>>

\* One iteration of decompress_directory's loop, for the path p.
DecompressIteration(p) ==
    LET meta_path == PathOf(p.dir, WithSuffix(p.name, metadata_extension))
        meta == IF meta_path \in DOMAIN out_meta THEN out_meta[meta_path] ELSE NoSidecar
        file == [exists |-> TRUE, name |-> p.name, content |-> out_files[p].content]
        r == EngineDecompressFile(file, meta, p.dir, available)
    IN  /\ todo' = todo \ {p}
        /\ IF Suffix(p.name) # compressed_extension
           THEN UNCHANGED <<dec_files, success_count>>
           ELSE /\ success_count' = IF r.raised THEN success_count ELSE success_count + 1
                /\ dec_files' =
                      IF r.inner.output = "complete"
                      THEN Put(dec_files, r.at, [data |-> r.inner.data, complete |-> TRUE])
                      ELSE IF r.inner.output = "partial"
                      THEN Put(dec_files, r.at, [data |-> "", complete |-> FALSE])
                      ELSE dec_files

DecompressNextFile ==
    /\ pc = "decompressing"
    /\ \E p \in todo : DecompressIteration(p)
    /\ UNCHANGED <<envVars, pc, out_files, out_meta, stats, stats_file, log>>

\* decompress_directory after its loop: it returns success_count.
DecompressDirectoryEnd ==
    /\ pc = "decompressing"
    /\ todo = {}
    /\ pc' = "decompressed"
    /\ UNCHANGED <<envVars, todo, out_files, out_meta, stats, stats_file, log,
                   dec_files, success_count>>

Next ==
    \/ CompressDirectoryBegin
    \/ CompressNextFile
    \/ CompressDirectoryEnd
    \/ DecompressDirectoryBegin
    \/ DecompressNextFile
    \/ DecompressDirectoryEnd

Spec == InitTree /\ [][Next]_vars

(***************************************************************************)
(* SpecRecommend                                                           *)
(***************************************************************************)
InitRecommend ==
    /\ available \in SUBSET OptionalCodecs
    /\ file_info \in Profiles
    /\ recommended = "none"
    /\ rpc = "ready"
    /\ IdleDecomp
    /\ IdleTree
    /\ IdleCompressFile
    /\ IdleAnalyze
    /\ IdleVerify

\* recommend_algorithm(file_info)
Recommend ==
    /\ rpc = "ready"
    /\ recommended' = RecommendAlgorithm(file_info)
    /\ rpc' = "done"
    /\ UNCHANGED <<available, file_info, decVars, treeVars, cfVars, anVars, verVars>>

NextRecommend == Recommend

SpecRecommend == InitRecommend /\ [][NextRecommend]_vars

(***************************************************************************)
(* SpecVerify: verify_file(file_path, reference_data, algorithms) on one   *)
(* file, or verify_directory(source_dir, None, original_dir) on a small    *)
(* directory.                                                              *)
(***************************************************************************)
\* File contents: three bytes, the same with one byte altered, one byte
\* more, and no bytes.
Recorded == <<1, 2, 3>>
Altered == <<1, 9, 3>>
Longer == <<1, 2, 3, 4>>
Contents == {Recorded, Altered, Longer, <<>>}

\* The algorithm lists records are generated with; the empty one stands for
\* algorithms not being passed.
AlgorithmLists == {<<>>, <<"crc32">>, <<"md5", "sha256">>, <<"sha1", "crc32">>}

\* The record generate_verification_data(file_path, algos) returned when
\* the file held `content`.
Recording(content, algos) ==
    GenerateVerificationData([exists |-> TRUE, content |-> content], algos).data

\* A record written by hand, with the digests of one content.
RecordOf(content, algos) ==
    [given |-> TRUE, has_size |-> TRUE, file_size |-> Len(content),
     hashes |-> [i \in 1..Len(algos) |->
                    [algo |-> algos[i], digest |-> Digest(algos[i], content)]]]

\* The records a caller may pass or a .gcverify file may hold: generated
\* ones, one whose last digest alone is of another content, one without
\* hashes, one with an algorithm hash_algorithms does not hold and one
\* without file_size.
References ==
    {Recording(c, a) : c \in Contents, a \in AlgorithmLists}
    \cup {[RecordOf(Recorded, <<"md5", "sha256">>) EXCEPT
              !.hashes[2].digest = Digest("sha256", Altered)],
          RecordOf(Recorded, <<>>),
          RecordOf(Recorded, <<"sha512">>),
          [RecordOf(Recorded, <<"crc32">>) EXCEPT !.has_size = FALSE]}

StoredAbsent == [state |-> "absent", record |-> NoRecord]
StoredCorrupt == [state |-> "corrupt", record |-> NoRecord]
StoredFiles ==
    {StoredAbsent, StoredCorrupt}
    \cup {[state |-> "ok", record |-> Recording(c, <<>>)] : c \in {Recorded, Longer}}

VerifyCalls ==
    [given : {TRUE},
     file : [exists : BOOLEAN, content : {Recorded, Altered}],
     reference_data : References \cup {NoRecord},
     algorithms : {<<>>, <<"crc32">>},
     stored : StoredFiles]

Name_b_txt == <<"b", ".", "t", "x", "t">>
Name_c_txt == <<"c", ".", "t", "x", "t">>
Name_d_txt == <<"d", ".", "t", "x", "t">>
Name_b_gcverify == <<"b">> \o verification_extension

\* The files of the verified directory: one without verification data, one
\* that matches its record, one altered in a byte after recording, one whose
\* record is unreadable, and a .gcverify file.
VerifiedUniverse ==
    {[id |-> "a.txt", name |-> Name_a_txt, content |-> Recorded, stored |-> StoredAbsent],
     [id |-> "b.txt", name |-> Name_b_txt, content |-> Recorded,
      stored |-> [state |-> "ok", record |-> Recording(Recorded, <<>>)]],
     [id |-> "c.txt", name |-> Name_c_txt, content |-> Altered,
      stored |-> [state |-> "ok", record |-> Recording(Recorded, <<>>)]],
     [id |-> "d.txt", name |-> Name_d_txt, content |-> Recorded, stored |-> StoredCorrupt],
     [id |-> "b.gcverify", name |-> Name_b_gcverify, content |-> <<>>,
      stored |-> StoredAbsent]}

\* original_dir: not passed, passed but missing, or a directory that holds
\* for each file the same bytes, other bytes, or nothing.
OriginalDirs == {"none", "missing", "same", "altered", "empty"}

\* The file of original_dir at the relative path of f.
OriginalOf(f, original_dir) ==
    CASE original_dir = "same"    -> [exists |-> TRUE, content |-> f.content]
      [] original_dir = "altered" -> [exists |-> TRUE, content |-> Altered \o f.content]
      [] OTHER                    -> [exists |-> FALSE, content |-> <<>>]

InitialResults ==
    [total_files |-> 0, verified_files |-> 0, failed_files |-> 0,
     missing_verification |-> 0, details |-> EmptyMap, success_rate |-> None]

InitVerify ==
    /\ available = {}
    /\ \/ /\ ver_call \in VerifyCalls
          /\ ver_dir = [given |-> FALSE]
          /\ ver_pc = "ready"
       \/ /\ ver_call = [given |-> FALSE]
          /\ ver_dir \in [given : {TRUE}, exists : BOOLEAN,
                          files : {x \in SUBSET VerifiedUniverse :
                                      Cardinality(x) <= MaxFiles},
                          original_dir : OriginalDirs]
          /\ ver_pc = "dir_call"
    /\ ver_result = [called |-> FALSE]
    /\ ver_todo = {}
    /\ ver_results = EmptyMap
    /\ IdleRecommend
    /\ IdleDecomp
    /\ IdleTree
    /\ IdleCompressFile
    /\ IdleAnalyze

otherVars == <<available, recVars, decVars, treeVars, cfVars, anVars>>

\* verify_file(file_path, reference_data, algorithms)
CallVerifyFile ==
    /\ ver_pc = "ready"
    /\ LET r == VerifyFile(ver_call.file, ver_call.reference_data,
                           ver_call.algorithms, ver_call.stored)
       IN  ver_result' = [called |-> TRUE, raised |-> r.raised, verified |-> r.verified,
                          error |-> r.error, current |-> r.current]
    /\ ver_pc' = "returned"
    /\ UNCHANGED <<otherVars, ver_call, ver_dir, ver_todo, ver_results>>

\* verify_directory up to its loop: the two directory checks and the empty
\* results.
VerifyDirectoryBegin ==
    /\ ver_pc = "dir_call"
    /\ IF ~ver_dir.exists \/ ver_dir.original_dir = "missing"
       THEN /\ ver_pc' = "dir_raised"
            /\ UNCHANGED <<ver_todo, ver_results>>
       ELSE /\ ver_pc' = "dir_walking"
            /\ ver_todo' = ver_dir.files
            /\ ver_results' = InitialResults
    /\ UNCHANGED <<otherVars, ver_call, ver_dir, ver_result>>

\* One iteration of verify_directory's loop, for the file f os.walk yields
\* next.
VerifyIteration(f) ==
    LET original == OriginalOf(f, ver_dir.original_dir)
        file == [exists |-> TRUE, content |-> f.content]
        original_data == GenerateVerificationData(original, <<>>)
        verify_result ==
            IF ver_dir.original_dir = "none"
            THEN VerifyFile(file, NoRecord, <<>>, f.stored)
            ELSE VerifyFile(file, original_data.data, <<>>, f.stored)
        counted == [ver_results EXCEPT !.total_files = @ + 1]
        detail(verified, error) ==
            Put(counted.details, f.id, [verified |-> verified, error |-> error])
    IN  /\ ver_todo' = ver_todo \ {f}
        /\ IF EndsWith(f.name, verification_extension)
           THEN ver_results' = ver_results
           ELSE IF ver_dir.original_dir # "none" /\ ~original.exists
           THEN ver_results' =
                    [counted EXCEPT !.failed_files = @ + 1,
                                    !.details = detail(FALSE, VerifyError("original", ""))]
           ELSE IF verify_result.raised
           THEN ver_results' =
                    [counted EXCEPT !.failed_files = @ + 1,
                                    !.details = detail(FALSE, verify_result.error)]
           ELSE IF verify_result.verified
           THEN ver_results' =
                    [counted EXCEPT !.verified_files = @ + 1,
                                    !.details = detail(TRUE, verify_result.error)]
           ELSE ver_results' =
                    [counted EXCEPT !.failed_files = @ + 1,
                                    !.details = detail(FALSE, verify_result.error)]

VerifyNextFile ==
    /\ ver_pc = "dir_walking"
    /\ \E f \in ver_todo : VerifyIteration(f)
    /\ UNCHANGED <<otherVars, ver_call, ver_dir, ver_result, ver_pc>>

\* The summary after the loop, and the return.
VerifyDirectoryEnd ==
    /\ ver_pc = "dir_walking"
    /\ ver_todo = {}
    /\ ver_results' =
          [ver_results EXCEPT !.success_rate =
              (ver_results.verified_files * 100)
                  \div (IF ver_results.total_files > 1 THEN ver_results.total_files ELSE 1)]
    /\ ver_pc' = "dir_returned"
    /\ UNCHANGED <<otherVars, ver_call, ver_dir, ver_result, ver_todo>>

NextVerify ==
    \/ CallVerifyFile
    \/ VerifyDirectoryBegin
    \/ VerifyNextFile
    \/ VerifyDirectoryEnd

SpecVerify == InitVerify /\ [][NextVerify]_vars

(***************************************************************************)
(* Claims on the tree operations (Spec)                                    *)
(***************************************************************************)
\* The input files compress_directory iterates over.
Candidates == GetAllFiles(input_dir.files)

\* C1: after compress_directory and decompress_directory every input file that
\* was compressed successfully is in the decompression directory at its
\* relative path with its own bytes, whatever the tree.
C1_RoundTripRestoresTree ==
    pc = "decompressed" =>
        \A f \in Candidates :
            log[f.id].file = 1 =>
                /\ PathOf(f.dir, f.name) \in DOMAIN dec_files
                /\ dec_files[PathOf(f.dir, f.name)] = [data |-> f.data, complete |-> TRUE]

\* C2: compress_file calls a backend at most twice: a failed first call with a
\* codec other than zlib is followed by exactly one call of zlib; a failed
\* call of zlib is the last one, the error is raised and compress_directory
\* counts the file as failed.
C2_AtMostOneFallbackRetry ==
    pc \in {"compressing", "returned"} =>
        \A id \in DOMAIN log :
            LET e == log[id]
                n == Len(e.attempts)
            IN  /\ n <= 2
                /\ \A i \in 1..n :
                      /\ i < n => ~e.attempts[i].ok
                      /\ (~e.attempts[i].ok /\ e.attempts[i].algorithm # "zlib")
                            => (i = 1 /\ n = 2 /\ e.attempts[2].algorithm = "zlib")
                      /\ (~e.attempts[i].ok /\ e.attempts[i].algorithm = "zlib")
                            => (i = n /\ e.raised /\ e.failed = 1 /\ e.file = 0)
                      /\ e.attempts[i].ok => (i = n /\ ~e.raised)

\* C2 witness: a file whose first backend (not zlib) and whose zlib retry both
\* failed, counted as failed.
C2_Witness ==
    /\ pc = "returned"
    /\ \E id \in DOMAIN log :
          /\ Len(log[id].attempts) = 2
          /\ log[id].attempts[1].algorithm = "lzma"
          /\ ~log[id].attempts[1].ok
          /\ log[id].attempts[2].algorithm = "zlib"
          /\ ~log[id].attempts[2].ok
          /\ log[id].failed = 1
    /\ \E id \in DOMAIN log :
          /\ Len(log[id].attempts) = 2
          /\ log[id].attempts[2].ok

\* C3: when compress_directory returns every candidate is counted in exactly
\* one of file_count, skipped_count and failed_count, and the three sum to
\* the number of candidates.
C3_EveryFileCountedOnce ==
    pc = "returned" =>
        /\ stats.file_count + stats.skipped_count + stats.failed_count
              = Cardinality(Candidates)
        /\ \A f \in Candidates :
              log[f.id].file + log[f.id].skipped + log[f.id].failed = 1

\* C4: compress_directory on an existing directory completes whatever happens
\* to single files: no error escapes it and compression_stats.json is
\* written when it returns.
C4_TreeOperationCompletes ==
    /\ pc # "raised"
    /\ pc = "returned" => stats_file

(***************************************************************************)
(* Claims on codec resolution and decompression (SpecDecomp)               *)
(***************************************************************************)
\* The codec of the extension table for each name of ArtifactNames, "" for
\* the names that end with none of the table's extensions.
TableCodecOfName(name) ==
    CASE name = Name_a_gz  -> "gzip"
      [] name = Name_a_xz  -> "lzma"
      [] name = Name_a_bz2 -> "bz2"
      [] name = Name_a_zst -> "zstd"
      [] name = Name_a_lz4 -> "lz4"
      [] name = Name_a_br  -> "brotli"
      [] name = Name_a_z   -> "zlib"
      [] OTHER -> ""

\* The codec of the magic-byte table for a header, "" when none matches.
MagicCodecOfHeader(head) ==
    CASE Len(head) >= 2 /\ head[1] = 31 /\ head[2] = 139 -> "gzip"
      [] Len(head) >= 5 /\ head[1] = 253 /\ head[2] = 55 /\ head[3] = 122
            /\ head[4] = 88 /\ head[5] = 90 -> "lzma"
      [] Len(head) >= 3 /\ head[1] = 66 /\ head[2] = 90 /\ head[3] = 104 -> "bz2"
      [] Len(head) >= 4 /\ head[1] = 40 /\ head[2] = 181 /\ head[3] = 47
            /\ head[4] = 253 -> "zstd"
      [] Len(head) >= 4 /\ head[1] = 4 /\ head[2] = 34 /\ head[3] = 77
            /\ head[4] = 24 -> "lz4"
      [] OTHER -> ""

\* The codec the resolution order gives when the sidecar names none.
CodecWithoutSidecarField ==
    IF TableCodecOfName(input_file.name) # "" THEN TableCodecOfName(input_file.name)
    ELSE IF MagicCodecOfHeader(input_file.content.head) # ""
         THEN MagicCodecOfHeader(input_file.content.head)
    ELSE "zlib"

DecompressorCalledWithoutMetadata ==
    /\ dpc = "done"
    /\ dresult.call = "decompressor"
    /\ ~metadata_arg.given
    /\ input_file.exists

DecompressorCalledWithCodec(c) ==
    /\ dpc = "done"
    /\ dresult.call = "decompressor"
    /\ input_file.exists
    /\ metadata_arg.given
    /\ metadata_arg.has_type
    /\ metadata_arg.compression_type = c

\* C6: Decompressor.decompress_file calls at most one decompressor, once; with
\* metadata naming a known codec c that is c's, and when c's backend is
\* unavailable or the decode fails the call raises with nothing else tried;
\* with metadata naming no known codec it raises unsupported-codec and calls
\* none.
C6_OneInverseOnly ==
    (dpc = "done" /\ dresult.call = "decompressor") =>
        /\ Len(dresult.inner.invoked) <= 1
        /\ \A c \in MetadataTypes :
              DecompressorCalledWithCodec(c) =>
                IF c \in Codecs
                THEN /\ dresult.inner.invoked = <<c>>
                     /\ (c \in OptionalCodecs \ available
                           \/ input_file.content.codec # c)
                          => /\ dresult.raised
                             /\ dresult.inner.outcome \in
                                    {"BackendUnavailable", "BackendFailure"}
                             /\ dresult.inner.output # "complete"
                ELSE /\ dresult.inner.invoked = <<>>
                     /\ dresult.raised
                     /\ dresult.inner.outcome = "UnsupportedCodec"

\* C6 witness: the metadata names gzip, the artifact was written by zlib:
\* gzip's decompressor alone ran and the call raised.
C6_Witness ==
    /\ DecompressorCalledWithCodec("gzip")
    /\ input_file.content = Encoded("zlib", "d1")
    /\ dresult.inner.invoked = <<"gzip">>
    /\ dresult.raised

\* Metadata reaches the Decompressor without the compression_type key: passed
\* by the caller, or read from the sidecar by CompressEngine.decompress_file.
MetadataLacksCodecField ==
    /\ dpc = "done"
    /\ input_file.exists
    /\ \/ dresult.call = "decompressor" /\ metadata_arg.given /\ ~metadata_arg.has_type
       \/ /\ dresult.call = "engine"
          /\ Suffix(input_file.name) = compressed_extension
          /\ sidecar.state = "ok"
          /\ ~sidecar.has_type

\* C7: metadata that lacks the compression_type key does not make
\* decompression fail: the codec is resolved from the extension table, the
\* magic bytes or the default, and an artifact of that codec is decompressed.
C7_MissingCodecFieldDegrades ==
    MetadataLacksCodecField =>
        /\ dresult.inner.resolved = CodecWithoutSidecarField
        /\ (/\ input_file.content.codec = CodecWithoutSidecarField
            /\ CodecWithoutSidecarField \in AvailableAlgorithms(available))
              => dresult.inner.outcome = "ok"

\* C8: when the backend fails to decode the artifact the call reports an
\* error and leaves no output file, for every codec.
C8_NoOutputOnDecodeFailure ==
    (dpc = "done" /\ dresult.inner.outcome = "BackendFailure") =>
        /\ ~dresult.returned
        /\ dresult.inner.output = "absent"

(***************************************************************************)
(* Claims on the algorithm selector (SpecRecommend)                        *)
(***************************************************************************)
\* C9: recommend_algorithm never returns a codec whose backend is unavailable.
C9_RecommendedIsAvailable ==
    rpc = "done" => recommended \in AvailableAlgorithms(available)

\* C10: every profile with is_compressible false is given lz4, whatever its
\* category, entropy and chunk similarity, also when lz4 is not in the
\* category's list.
C10_IncompressibleGetsLz4 ==
    (rpc = "done" /\ ~file_info.is_compressible) => recommended = "lz4"

\* C10 witness: an incompressible text file of low entropy and high chunk
\* similarity (lz4 is not in the text list) is given lz4.
C10_Witness ==
    /\ rpc = "done"
    /\ file_info.file_type = "text"
    /\ ~file_info.is_compressible
    /\ file_info.entropy = 0
    /\ file_info.chunk_similarity = 100
    /\ ~Contains(RecommendationsFor("text"), "lz4")
    /\ recommended = "lz4"

\* The first codec of a preference order that occurs in a category's list,
\* "" when none of them occurs.
FirstOf(prefs, list) ==
    LET hits == {i \in 1..Len(prefs) : Contains(list, prefs[i])}
    IN  IF hits = {} THEN ""
        ELSE prefs[CHOOSE i \in hits : \A j \in hits : i <= j]

HighRatioOrder == <<"lzma", "brotli", "zstd">>
LowLatencyOrder == <<"lz4", "zlib", "zstd">>

\* recommend_algorithm answered for a compressible profile of known entropy
\* below the low threshold / above the high threshold.
LowEntropyRecommended ==
    /\ rpc = "done"
    /\ file_info.is_compressible
    /\ file_info.entropy # None
    /\ file_info.entropy < EntropyLow

HighEntropyRecommended ==
    /\ rpc = "done"
    /\ file_info.is_compressible
    /\ file_info.entropy # None
    /\ file_info.entropy > EntropyHigh

\* The answer does not depend on the profile's chunk similarity.
SimilarityIgnored ==
    \A s \in SimilarityValues \cup {None} :
        RecommendAlgorithm([file_info EXCEPT !.chunk_similarity = s]) = recommended

\* C11 as stated: for a compressible profile of known entropy the answer is
\* the first of lzma, brotli, zstd in the category's list when the entropy is
\* below 3.0, the first of lz4, zlib, zstd in the list when it is above 7.0,
\* and in both cases the same for every chunk similarity.
C11_EntropyLayerAlwaysDecides ==
    /\ LowEntropyRecommended =>
          /\ recommended = FirstOf(HighRatioOrder, RecommendationsFor(file_info.file_type))
          /\ SimilarityIgnored
    /\ HighEntropyRecommended =>
          /\ recommended = FirstOf(LowLatencyOrder, RecommendationsFor(file_info.file_type))
          /\ SimilarityIgnored

\* C11 amended: the entropy layer decides when the category's list holds one
\* of the layer's codecs: then the answer is the first of lzma, brotli, zstd
\* (entropy below 3.0) or of lz4, zlib, zstd (entropy above 7.0) in the list.
\* A list that holds none of them (video below 3.0) leaves the answer to the
\* list's first entry.  In every case the answer is the same for every chunk
\* similarity.
C11_EntropyLayerDecidesWhenListed ==
    LET list == RecommendationsFor(file_info.file_type)
    IN  /\ LowEntropyRecommended =>
              /\ recommended = IF FirstOf(HighRatioOrder, list) # ""
                               THEN FirstOf(HighRatioOrder, list) ELSE list[1]
              /\ SimilarityIgnored
        /\ HighEntropyRecommended =>
              /\ recommended = IF FirstOf(LowLatencyOrder, list) # ""
                               THEN FirstOf(LowLatencyOrder, list) ELSE list[1]
              /\ SimilarityIgnored

\* C11 witness: a compressible text file of low entropy whose chunks are
\* alike is given lzma, not the zstd the similarity layer would choose.
C11_Witness ==
    /\ LowEntropyRecommended
    /\ file_info.file_type = "text"
    /\ file_info.chunk_similarity = 100
    /\ recommended = "lzma"

\* recommend_algorithm answered for a compressible profile whose entropy is
\* unknown or within [3.0, 7.0].
MidEntropyRecommended ==
    /\ rpc = "done"
    /\ file_info.is_compressible
    /\ \/ file_info.entropy = None
       \/ file_info.entropy >= EntropyLow /\ file_info.entropy <= EntropyHigh

\* C12: for a compressible profile whose entropy is unknown or within
\* [3.0, 7.0], a known chunk similarity above 0.5 gives zstd when the
\* category's list holds it, else brotli when the list holds it; in every
\* other case the answer is the first entry of the list, which for a category
\* without a configured list is the default codec zstd.
C12_SimilarityLayerThenFirstEntry ==
    MidEntropyRecommended =>
        LET configured == file_info.file_type \in DOMAIN algorithm_recommendations
            list == IF configured THEN algorithm_recommendations[file_info.file_type]
                    ELSE <<"zstd">>
            similar == /\ file_info.chunk_similarity # None
                       /\ file_info.chunk_similarity > SimilarityThreshold
        IN  /\ recommended =
                  IF similar /\ Contains(list, "zstd") THEN "zstd"
                  ELSE IF similar /\ Contains(list, "brotli") THEN "brotli"
                  ELSE list[1]
            /\ ~configured => recommended = "zstd"

\* C12 witness: a compressible font of middling entropy whose chunks are
\* alike is given zstd although the font list starts with brotli.
C12_Witness ==
    /\ MidEntropyRecommended
    /\ file_info.file_type = "font"
    /\ file_info.entropy = 31
    /\ file_info.chunk_similarity = 51
    /\ algorithm_recommendations["font"][1] = "brotli"
    /\ recommended = "zstd"

(***************************************************************************)
(* Claims on compress_file (SpecCompressFile)                              *)
(***************************************************************************)
InRange(level, c) == level_range(c)[1] <= level /\ level <= level_range(c)[2]

CompressFileReturned == cf_result.called /\ ~cf_result.raised

\* C13: compress_file rejects no level: it raises only for a missing input or
\* failing backends; every backend call gets a level within the range of the
\* codec called, a requested level outside that range being replaced by the
\* codec's default; and the level in the returned metadata is the one of the
\* last call, within the range of the codec the metadata names.
C13_LevelWithinRangeOfInvokedCodec ==
    cf_result.called =>
        LET n == Len(cf_result.attempts)
            first == cf_result.attempts[1]
        IN  /\ cf_result.raised => cf_result.error \in {"NotFound", "BackendFailure"}
            /\ cf_result.raised <=> (~cf_args.exists \/ ~cf_result.attempts[n].ok)
            /\ \A i \in 1..n :
                  InRange(cf_result.attempts[i].level, cf_result.attempts[i].algorithm)
            /\ (n > 0 /\ cf_args.level # None) =>
                  first.level = IF InRange(cf_args.level, first.algorithm)
                                THEN cf_args.level ELSE default_level(first.algorithm)
            /\ ~cf_result.raised =>
                  /\ cf_result.metadata.level = cf_result.attempts[n].level
                  /\ cf_result.metadata.algorithm = cf_result.attempts[n].algorithm
                  /\ InRange(cf_result.metadata.level, cf_result.metadata.algorithm)

\* C13 witness: level 17 asked of zstd, whose backend is missing: zlib is
\* called with its default level 6 and the metadata records it.
C13_Witness ==
    /\ CompressFileReturned
    /\ cf_args.algorithm = "zstd"
    /\ "zstd" \notin available
    /\ cf_args.level = 17
    /\ cf_result.attempts = <<[algorithm |-> "zlib", level |-> 6, ok |-> TRUE]>>
    /\ cf_result.metadata.level = 6

\* C14: when compress_file returns, the metadata's algorithm and
\* compression_type both name the codec whose backend wrote the output file;
\* Decompressor.decompress_file called with that metadata runs that codec's
\* decompressor alone and restores the input's bytes.
C14_MetadataNamesWritingCodec ==
    /\ CompressFileReturned =>
          /\ cf_result.output_file.exists
          /\ cf_result.metadata.algorithm = cf_result.output_file.content.codec
          /\ cf_result.metadata.compression_type = cf_result.output_file.content.codec
    /\ cf_restore.called =>
          /\ ~cf_restore.raised
          /\ cf_restore.inner.invoked = <<cf_result.output_file.content.codec>>
          /\ cf_restore.inner.output = "complete"
          /\ cf_restore.inner.data = cf_args.data

\* C14 witness: lzma was asked for and its backend raised; zlib wrote the
\* output, the metadata names zlib and zlib's decompressor restored the bytes.
C14_Witness ==
    /\ cf_restore.called
    /\ cf_args.algorithm = "lzma"
    /\ Len(cf_result.attempts) = 2
    /\ cf_result.output_file.content = Encoded("zlib", cf_args.data)
    /\ cf_result.metadata.compression_type = "zlib"
    /\ cf_restore.inner.invoked = <<"zlib">>
    /\ cf_restore.inner.data = cf_args.data

(***************************************************************************)
(* Claims on the analyzer (SpecAnalyze)                                    *)
(***************************************************************************)
\* The sample can be read and holds a complete signature at its start.
BeginsWithSignature ==
    /\ an_file.readable
    /\ \E sig \in signatures : StartsWith(an_file.head, sig)

\* C15: a readable sample that begins with one of the known signatures is never
\* called compressible, whatever its length, extension and entropy: neither
\* by _is_likely_compressible nor in the profile analyze_file returns.
C15_SignatureMeansIncompressible ==
    (an_pc = "done" /\ BeginsWithSignature) => ~an_result.is_compressible

(***************************************************************************)
(* Claims on the verifier (SpecVerify)                                     *)
(***************************************************************************)
\* verify_file returned for a file and a reference record passed by the
\* caller.
VerifiedAgainstReference ==
    /\ ver_pc = "returned"
    /\ ver_call.reference_data.given
    /\ ~ver_result.raised

\* The current size equals the reference's file_size.
SizesAgree ==
    /\ ver_call.reference_data.has_size
    /\ ver_call.reference_data.file_size = Len(ver_call.file.content)

\* The algorithms of the reference whose digest was computed afresh and
\* differs from the reference's.
DifferingAlgorithms ==
    LET reference == ver_call.reference_data
    IN  {reference.hashes[i].algo : i \in
            {k \in 1..Len(reference.hashes) :
                /\ \E j \in 1..Len(ver_result.current.hashes) :
                      ver_result.current.hashes[j].algo = reference.hashes[k].algo
                /\ reference.hashes[k].digest
                      # Digest(reference.hashes[k].algo, ver_call.file.content)}}

\* C16: verify_file with a reference answers verified exactly when the sizes
\* agree and no hash algorithm of both records has differing digests; the
\* error names the size when the sizes differ, before any hash is looked at,
\* and otherwise names an algorithm whose digests differ; a file altered in
\* one byte after recording, its size unchanged, is not verified and the
\* error names a hash.
C16_VerifiedIffSizeAndSharedHashesAgree ==
    VerifiedAgainstReference =>
        /\ ver_result.verified <=> (SizesAgree /\ DifferingAlgorithms = {})
        /\ ver_result.verified => ver_result.error = NoError
        /\ ~SizesAgree => ver_result.error = VerifyError("size", "")
        /\ (SizesAgree /\ DifferingAlgorithms # {}) =>
              /\ ver_result.error.kind = "hash"
              /\ ver_result.error.algo \in DifferingAlgorithms
        /\ (/\ ver_call.file.content = Altered
            /\ ver_call.algorithms = <<>>
            /\ \E a \in AlgorithmLists :
                  ver_call.reference_data = Recording(Recorded, a))
              => (~ver_result.verified /\ ver_result.error.kind = "hash")

\* C16 witness: the file was altered in one byte after its md5 and sha256
\* were recorded; the sizes agree and the error names md5.
C16_Witness ==
    /\ VerifiedAgainstReference
    /\ ver_call.file.content = Altered
    /\ ver_call.algorithms = <<>>
    /\ ver_call.reference_data = Recording(Recorded, <<"md5", "sha256">>)
    /\ SizesAgree
    /\ ~ver_result.verified
    /\ ver_result.error = VerifyError("hash", "md5")

\* The files of the verified directory that have no verification data: no
\* original to compare with and no .gcverify file.
WithoutVerificationData ==
    {f \in ver_dir.files :
        /\ ~EndsWith(f.name, verification_extension)
        /\ f.stored.state = "absent"}

\* C17: verify_directory without originals counts every file that has no
\* .gcverify file under missing_verification and none of them under
\* failed_files.
C17_MissingVerificationCountedApart ==
    (ver_pc = "dir_returned" /\ ver_dir.original_dir = "none") =>
        /\ ver_results.missing_verification = Cardinality(WithoutVerificationData)
        /\ ver_results.failed_files =
              Cardinality({f \in ver_dir.files :
                              /\ ~EndsWith(f.name, verification_extension)
                              /\ f.stored.state # "absent"
                              /\ ~ver_results.details[f.id].verified})

(***************************************************************************)
(* Claims on missing inputs and artifact paths                             *)
(***************************************************************************)
\* C18: compress_directory called with an input directory that does not
\* exist raises to its caller.
C18_MissingInputDirectoryRaises ==
    (~input_dir.exists /\ pc \notin {"idle", "call"}) => pc = "raised"

\* C19: CompressEngine.decompress_file called with an input file that does
\* not exist raises to its caller.
C19_MissingInputFileRaises ==
    (dpc = "done" /\ dresult.call = "engine" /\ ~input_file.exists) => dresult.raised

\* C20: compress_directory writes the artifact of the input file at relative
\* path p to p with .gcmp appended to the full file name, the original
\* extension kept.
C20_ArtifactPathAppendsExtension ==
    pc = "returned" =>
        \A f \in Candidates :
            log[f.id].file = 1 =>
                /\ log[f.id].artifact = PathOf(f.dir, f.name \o compressed_extension)
                /\ PathOf(f.dir, f.name \o compressed_extension) \in DOMAIN out_files

(***************************************************************************)
(* Claims on the tree operations, continued (Spec)                         *)
(***************************************************************************)
\* The .gcmp artifacts of the output directory.
Artifacts == {p \in DOMAIN out_files : Suffix(p.name) = compressed_extension}

\* What CompressEngine.decompress_file does with the artifact at p.
ArtifactDecompression(p) ==
    LET meta_path == PathOf(p.dir, WithSuffix(p.name, metadata_extension))
        meta == IF meta_path \in DOMAIN out_meta THEN out_meta[meta_path] ELSE NoSidecar
        file == [exists |-> TRUE, name |-> p.name, content |-> out_files[p].content]
    IN  EngineDecompressFile(file, meta, p.dir, available)

\* C21: decompress_directory returns the number of artifacts that were
\* decompressed: an artifact whose decompression failed is not counted.
C21_CountsSuccessfulDecompressions ==
    pc = "decompressed" =>
        success_count = Cardinality({p \in Artifacts : ArtifactDecompression(p).returned})

\* The step of compress_directory's loop that handles the file f.
Handles(f) == pc = "compressing" /\ f \in todo /\ todo' = todo \ {f}

\* C22: without force a candidate with the suffix .gcmp is only counted in
\* skipped_count: its step writes no artifact and no sidecar and changes no
\* other statistic; with force it is compressed as any other file, counted as
\* compressed or failed, its size added to original_size_bytes.
C22_SkipsCompressedUnlessForced ==
    [][\A f \in FileUniverse :
          (Handles(f) /\ Suffix(f.name) = compressed_extension) =>
              IF ~force
              THEN /\ stats' = [stats EXCEPT !.skipped_count = @ + 1]
                   /\ out_files' = out_files
                   /\ out_meta' = out_meta
                   /\ log'[f.id] = [log[f.id] EXCEPT !.skipped = 1]
              ELSE /\ stats'.skipped_count = stats.skipped_count
                   /\ stats'.original_size_bytes = stats.original_size_bytes + f.size
                   /\ \/ /\ stats'.file_count = stats.file_count + 1
                         /\ stats'.failed_count = stats.failed_count
                         /\ log'[f.id].artifact \in DOMAIN out_files'
                         /\ out_files'[log'[f.id].artifact].from = f.id
                      \/ /\ stats'.file_count = stats.file_count
                         /\ stats'.failed_count = stats.failed_count + 1]_vars

\* compress_directory has returned from a tree holding a .gcmp file and a
\* text file, force off: the first was skipped, the second compressed.
C22_Witness ==
    /\ pc = "returned"
    /\ ~force
    /\ input_dir.files = {GcmpFile, TextFile}
    /\ log[GcmpFile.id].skipped = 1
    /\ stats.skipped_count = 1
    /\ stats.file_count = 1
    /\ stats.original_size_bytes = TextFile.size
    /\ DOMAIN out_files = {PathOf(<<>>, WithSuffix(TextFile.name, compressed_extension))}

(***************************************************************************)
(* Claims on the classifier (SpecAnalyze)                                  *)
(***************************************************************************)
\* analyze_file returned a profile of the file; its file_type is what
\* _determine_file_type answered.
Classified == an_pc = "done" /\ an_result.call = "analyze_file"
ClassifiedAs == an_result.info.file_type
LookupMisses == \A c \in Categories : Lower(Suffix(an_file.name)) \notin file_categories[c]
NamedLike(patterns) == \E e \in patterns : EndsWith(Lower(an_file.name), e)
ModelPatterns ==
    {<<".", "m", "o", "d", "e", "l">>, <<".", "m", "e", "s", "h">>,
     <<".", "o", "b", "j">>, <<".", "f", "b", "x">>}
ShaderPatterns ==
    {<<".", "s", "h", "a", "d", "e", "r">>, <<".", "v", "e", "r", "t">>,
     <<".", "f", "r", "a", "g">>}

\* What holds of every classification: one of the eleven categories; the
\* table's category when the extension is in the table; on a miss the
\* category of the sniffed media type, gamedata for a media type without a
\* branch and for a sniffing error.
ClassifiedByTableThenType ==
    /\ Cardinality(Categories) = 11
    /\ ClassifiedAs \in Categories
    /\ ~LookupMisses => Lower(Suffix(an_file.name)) \in file_categories[ClassifiedAs]
    /\ Lower(Suffix(an_file.name)) \in {Suffix(Name_a_txt), Suffix(Name_a_json)}
          => ClassifiedAs = "text"
    /\ Lower(Suffix(an_file.name)) = Suffix(Name_a_jpg) => ClassifiedAs = "image"
    /\ LookupMisses =>
          /\ an_file.mime[1] \in {"text", "image", "audio", "video"}
                => ClassifiedAs = an_file.mime[1]
          /\ an_file.mime = <<"application", "x-dosexec">> => ClassifiedAs = "executable"
          /\ an_file.mime = <<"application", "zip">> => ClassifiedAs = "archive"
          /\ an_file.mime \in {<<"application", "json">>, <<"inode", "x-empty">>, MimeError}
                => ClassifiedAs = "gamedata"

\* C23 as stated: the classifier answers one of eleven categories and never
\* raises; the extension table decides, then the sniffed media type; on a
\* miss, generic binary content (application/octet-stream) is gamedata, as
\* are unknown media types and sniffing errors.
C23_GenericBinaryIsGamedata ==
    Classified =>
        /\ ClassifiedByTableThenType
        /\ (LookupMisses /\ an_file.mime = <<"application", "octet-stream">>)
              => ClassifiedAs = "gamedata"

\* C23, amended: generic binary content is gamedata unless the file name ends
\* with a model pattern (then model) or a shader pattern (then shader).
C23_GenericBinaryByNamePattern ==
    Classified =>
        /\ ClassifiedByTableThenType
        /\ (LookupMisses /\ an_file.mime = <<"application", "octet-stream">>)
              => ClassifiedAs = IF NamedLike(ModelPatterns) THEN "model"
                                ELSE IF NamedLike(ShaderPatterns) THEN "shader"
                                ELSE "gamedata"

\* A.JPG sniffed as text/plain was classified by its extension, as image.
C23_Witness ==
    /\ Classified
    /\ an_file.name = Name_A_JPG
    /\ an_file.mime = <<"text", "plain">>
    /\ ClassifiedAs = "image"

\* The files this system writes beside its artifacts: the sidecars and
\* compression_stats.json.
ProducedAsMetadata(f) == EndsWith(f.name, metadata_extension) \/ f.name = Name_stats

\* C24: compress_directory handles every file of the tree, nested ones
\* included, but the sidecar and metadata files this system produces: those
\* are no candidates, and no artifact is made of them.
C24_MetadataFilesAreNoCandidates ==
    pc = "returned" =>
        \A f \in input_dir.files :
            IF ProducedAsMetadata(f)
            THEN /\ f.id \notin DOMAIN log
                 /\ \A p \in DOMAIN out_files : out_files[p].from # f.id
            ELSE /\ f.id \in DOMAIN log
                 /\ log[f.id] # NotProcessed

\* The same for the files that are not compression_stats.json: sidecars are
\* left out, every other file is handled.
SidecarsAreNoCandidates ==
    pc = "returned" =>
        \A f \in input_dir.files \ {StatsFile} :
            IF ProducedAsMetadata(f)
            THEN /\ f.id \notin DOMAIN log
                 /\ \A p \in DOMAIN out_files : out_files[p].from # f.id
            ELSE /\ f.id \in DOMAIN log
                 /\ log[f.id] # NotProcessed

\* The sidecar path of an artifact path.
SidecarOf(p) == PathOf(p.dir, WithSuffix(p.name, metadata_extension))

\* C25: when compress_directory returns, every artifact of the output tree has
\* its sidecar, written for the same input file: a file whose compression or
\* sidecar write failed leaves no artifact without record.
C25_EveryArtifactHasItsSidecar ==
    pc = "returned" =>
        \A p \in DOMAIN out_files :
            /\ SidecarOf(p) \in DOMAIN out_meta
            /\ out_meta[SidecarOf(p)].from = out_files[p].from

C27_DistinctFilesDistinctArtifacts ==
    pc = "returned" =>
        \A f, g \in Candidates :
            (f # g /\ log[f.id].file = 1 /\ log[g.id].file = 1) =>
                /\ log[f.id].artifact # log[g.id].artifact
                /\ SidecarOf(log[f.id].artifact) # SidecarOf(log[g.id].artifact)
                /\ out_files[log[f.id].artifact].from = f.id
                /\ out_meta[SidecarOf(log[f.id].artifact)].from = f.id

\* The codec that wrote the artifact of a compressed file: the last backend
\* compress_file called for it, which is the 'algorithm' of its sidecar.
WrittenBy(f) == log[f.id].attempts[Len(log[f.id].attempts)].algorithm

\* C28: at return algorithm_usage[c] is the number of compressed files whose
\* artifact was written by codec c, also for the files whose recommended
\* codec was unavailable or failed and that zlib compressed.
C28_UsageCountsWritingCodec ==
    pc = "returned" =>
        \A c \in Codecs :
            stats.algorithm_usage[c] =
                Cardinality({f \in Candidates : log[f.id].file = 1 /\ WrittenBy(f) = c})

\* The same count taken over the codec recommend_algorithm named.
UsageCountsRecommendedCodec ==
    pc = "returned" =>
        \A c \in Codecs :
            stats.algorithm_usage[c] =
                Cardinality({f \in Candidates : log[f.id].file = 1 /\ log[f.id].recommended = c})

\* The sum of one field of compression_by_type over the categories.
RECURSIVE SumByType(_, _)
SumByType(field, types) ==
    IF types = {} THEN 0
    ELSE LET t == CHOOSE x \in types : TRUE
         IN  stats.compression_by_type[t][field] + SumByType(field, types \ {t})

\* C29: at return original_size_bytes is the sum of the 'original' entries of
\* compression_by_type and compressed_size_bytes the sum of the 'compressed'
\* entries: skipped and failed files add to neither.
C29_TotalsAreSumsByType ==
    pc = "returned" =>
        /\ stats.original_size_bytes = SumByType("original", Categories)
        /\ stats.compressed_size_bytes = SumByType("compressed", Categories)

\* The compressed half alone.
CompressedTotalIsSumByType ==
    pc = "returned" => stats.compressed_size_bytes = SumByType("compressed", Categories)

(***************************************************************************)
(* Claims on the decompression of artifacts without sidecar (SpecDecomp)   *)
(***************************************************************************)
\* CompressEngine.decompress_file was called on a.gcmp, written by codec c,
\* with no sidecar beside it.
SidecarlessArtifactOf(c) ==
    /\ dpc = "done"
    /\ dresult.call = "engine"
    /\ input_file.exists
    /\ input_file.name = Name_a_gcmp
    /\ input_file.content = Encoded(c, "d1")
    /\ sidecar.state = "absent"

\* C30: for a .gcmp artifact without sidecar, written by any of the seven
\* codecs, the codec resolved from the magic bytes or the zlib default is the
\* writing codec, and no other codec's decompressor is applied to it.
C30_SidecarlessResolvesToWritingCodec ==
    \A c \in Codecs :
        SidecarlessArtifactOf(c) =>
            /\ dresult.inner.resolved = c
            /\ \A i \in 1..Len(dresult.inner.invoked) : dresult.inner.invoked[i] = c

\* The same for the codecs that write a magic number, and for zlib.
SidecarlessResolvesUnlessBrotli ==
    \A c \in Codecs \ {"brotli"} :
        SidecarlessArtifactOf(c) =>
            /\ dresult.inner.resolved = c
            /\ \A i \in 1..Len(dresult.inner.invoked) : dresult.inner.invoked[i] = c

====
